---- MODULE Spec2Model ----
(***************************************************************************)
(* Model of the job-runner chain (job-runner/chain/chain.go): the job      *)
(* states of a DAG of jobs, the runnability predicate, the completion      *)
(* oracle IsDoneRunning and the try counters, with Go's fixed-width        *)
(* int/uint arithmetic scaled down to IntBits bits.                        *)
(***************************************************************************)
EXTENDS Integers, Sequences, FiniteSets, TLC

VARIABLES
    jobs,               \* jobChain.Jobs: job id -> Job
    adjacencyList,      \* jobChain.AdjacencyList: job id -> sequence of ids
    sequenceTries,      \* map[string]uint
    latestRunJobTries,  \* map[string]uint
    totalJobTries,      \* map[string]uint
    panicked,           \* a panic() was raised
    ret,                \* the last call and what it returned
    attempts,           \* retry protocol: attempts started, per sequence
    phase,              \* retry protocol: position of the caller, per sequence
    triesMux,           \* sync.RWMutex guarding the three try maps
    pc,                 \* per goroutine: position inside the method it runs
    frame,              \* per goroutine: arguments and locals of that method
    finishedJobs,       \* jobChain.FinishedJobs (uint)
    chainState,         \* jobChain.State (byte)
    requestId,          \* jobChain.RequestId
    sjc,                \* the proto.SuspendedJobChain returned by ToSuspended
    built,              \* NewChain has returned a Chain over the job chain
    jobsMux,            \* Chain.jobsMux
    args,               \* spinc find: ctx.Command.Args
    filter,             \* spinc find: Find.filter
    calls               \* calls of Chain methods begun by the goroutines

vars == <<jobs, adjacencyList, sequenceTries, latestRunJobTries, totalJobTries,
          panicked, ret, attempts, phase, triesMux, pc, frame,
          finishedJobs, chainState, requestId, sjc, built,
          jobsMux, args, filter, calls>>

chainVars == <<jobs, adjacencyList>>
triesVars == <<sequenceTries, latestRunJobTries, totalJobTries>>
protoVars == <<attempts, phase>>
procVars  == <<triesMux, pc, frame>>
jcVars    == <<finishedJobs, chainState, requestId>>
otherVars == <<jobsMux, args, filter, calls>>
restVars  == <<finishedJobs, chainState, requestId, sjc, built, otherVars>>

----------------------------------------------------------------------------
(* Bounds *)

\* Width in bits of Go's int and uint (64 on the real build), scaled down.
IntBits == 3
\* Largest SequenceRetry given to a sequence-start job.
MaxRetry == 2
\* Number of goroutines calling the try-counter methods concurrently.
NumProcs == 2
\* Largest value of a sequence-tries counter where the job states are explored.
MaxSeqTries == 3
\* largest finished-jobs count the callers of SpecFinished reach
MaxFinished == 3
\* largest total of job tries the callers of SpecResume reach
MaxJobTotal == 4
\* most arguments of a find command
MaxArgs == 2
\* most calls the goroutines begin where both mutexes are followed
MaxCalls == 2

----------------------------------------------------------------------------
(* Go integers *)

UintMod == 2 ^ IntBits
MaxInt  == 2 ^ (IntBits - 1) - 1
MinInt  == 0 - 2 ^ (IntBits - 1)
IntRange == MinInt .. MaxInt

\* uint(x): conversion of an int, or the result of a uint operation
ToUint(x) == x % UintMod
\* int(u): conversion of a uint, or the wrapped result of an int operation
ToInt(x) == LET u == x % UintMod IN IF u > MaxInt THEN u - UintMod ELSE u

----------------------------------------------------------------------------
(* Go maps: a missing key reads as the zero value; a store adds the key *)

MapGet(m, k, zero) == IF k \in DOMAIN m THEN m[k] ELSE zero
MapPut(m, k, v) == [x \in (DOMAIN m) \cup {k} |-> IF x = k THEN v ELSE m[x]]
EmptyMap == [x \in {} |-> 0]

----------------------------------------------------------------------------
(* proto job states *)

STATE_UNKNOWN   == "UNKNOWN"
STATE_PENDING   == "PENDING"
STATE_RUNNING   == "RUNNING"
STATE_COMPLETE  == "COMPLETE"
STATE_FAIL      == "FAIL"
STATE_STOPPED   == "STOPPED"
\* a chain-level state, not one of the job states IsDoneRunning knows
STATE_SUSPENDED == "SUSPENDED"

ValidStates == {STATE_PENDING, STATE_RUNNING, STATE_COMPLETE, STATE_FAIL,
                STATE_STOPPED, STATE_UNKNOWN}
AllStates == ValidStates \cup {STATE_SUSPENDED}

\* proto.Job (the fields the chain reads) and its zero value
Job(id, state, seqId, seqRetry, data) ==
    [Id |-> id, State |-> state, SequenceId |-> seqId,
     SequenceRetry |-> seqRetry, Data |-> data]
ZeroJob == Job("", STATE_UNKNOWN, "", 0, "nil")

----------------------------------------------------------------------------
(* The chain *)

\* a NewChain that makes stopped jobs pending again
NewChain_Resurrect(jcJobs) ==
    [jobName \in DOMAIN jcJobs |->
        [jcJobs[jobName] EXCEPT
            !.Data = IF @ = "nil" THEN "empty" ELSE @,
            !.State = IF @ = STATE_STOPPED THEN STATE_PENDING ELSE @]]

\* a NewChain that stores nothing back
NewChain_KeepNil(jcJobs) == jcJobs

\* NewChain: every job gets a non-nil Data map, nothing else changes
NewChain(jcJobs) ==
    [jobName \in DOMAIN jcJobs |->
        IF jcJobs[jobName].Data = "nil"
            THEN [jcJobs[jobName] EXCEPT !.Data = "empty"]
            ELSE jcJobs[jobName]]

contains(s, t) == \E i \in 1..Len(s) : s[i] = t

\* previousJobs: the jobs whose adjacency list contains jobId
previousJobs(jobId) ==
    {jobs[curJob] : curJob \in
        {k \in DOMAIN adjacencyList : contains(adjacencyList[k], jobId) /\ k \in DOMAIN jobs}}

isRunnable_NeedsPrev(jobId) ==
    LET job == MapGet(jobs, jobId, ZeroJob) IN
    IF job.State # STATE_PENDING THEN FALSE
    ELSE /\ previousJobs(jobId) # {}
         /\ \A prev \in previousJobs(jobId) : prev.State = STATE_COMPLETE

isRunnable_AnyPrev(jobId) ==
    LET job == MapGet(jobs, jobId, ZeroJob) IN
    IF job.State # STATE_PENDING THEN FALSE
    ELSE previousJobs(jobId) = {}
         \/ \E prev \in previousJobs(jobId) : prev.State = STATE_COMPLETE

\* isRunnable: PENDING and every immediately previous job COMPLETE
isRunnable(jobId) ==
    LET job == MapGet(jobs, jobId, ZeroJob) IN
    IF job.State # STATE_PENDING THEN FALSE
    ELSE \A prev \in previousJobs(jobId) : prev.State = STATE_COMPLETE

sequenceStartJob(jobId) ==
    MapGet(jobs, MapGet(jobs, jobId, ZeroJob).SequenceId, ZeroJob)

canRetrySequence_Strict(jobId) ==
    LET start == sequenceStartJob(jobId) IN
    MapGet(sequenceTries, start.Id, 0) < start.SequenceRetry

canRetrySequence(jobId) ==
    LET start == sequenceStartJob(jobId) IN
    MapGet(sequenceTries, start.Id, 0) <= start.SequenceRetry

\* The result of one return or panic of IsDoneRunning
Verdict(done, complete, panic) == [done |-> done, complete |-> complete, panic |-> panic]

\* What IsDoneRunning's switch does with one job: "continue" (next job,
\* complete untouched), "notdone" (return false, false), "incomplete"
\* (complete = false, next job) or "panic"
jobVerdict_RunningIgnored(job) ==
    CASE job.State = STATE_COMPLETE -> "continue"
      [] job.State = STATE_RUNNING -> "incomplete"
      [] job.State = STATE_STOPPED -> "incomplete"
      [] job.State = STATE_PENDING ->
            IF isRunnable(job.Id) THEN "notdone" ELSE "incomplete"
      [] job.State \in {STATE_FAIL, STATE_UNKNOWN} ->
            IF canRetrySequence(job.Id) THEN "notdone" ELSE "incomplete"
      [] OTHER -> "panic"

jobVerdict_StoppedComplete(job) ==
    CASE job.State = STATE_COMPLETE -> "continue"
      [] job.State = STATE_RUNNING -> "notdone"
      [] job.State = STATE_STOPPED -> "continue"
      [] job.State = STATE_PENDING ->
            IF isRunnable(job.Id) THEN "notdone" ELSE "incomplete"
      [] job.State \in {STATE_FAIL, STATE_UNKNOWN} ->
            IF canRetrySequence(job.Id) THEN "notdone" ELSE "incomplete"
      [] OTHER -> "panic"

jobVerdict_StoppedNotDone(job) ==
    CASE job.State = STATE_COMPLETE -> "continue"
      [] job.State = STATE_RUNNING -> "notdone"
      [] job.State = STATE_STOPPED -> "notdone"
      [] job.State = STATE_PENDING ->
            IF isRunnable(job.Id) THEN "notdone" ELSE "incomplete"
      [] job.State \in {STATE_FAIL, STATE_UNKNOWN} ->
            IF canRetrySequence(job.Id) THEN "notdone" ELSE "incomplete"
      [] OTHER -> "panic"

jobVerdict_UnknownNoRetry(job) ==
    CASE job.State = STATE_COMPLETE -> "continue"
      [] job.State = STATE_RUNNING -> "notdone"
      [] job.State = STATE_STOPPED -> "incomplete"
      [] job.State = STATE_PENDING ->
            IF isRunnable(job.Id) THEN "notdone" ELSE "incomplete"
      [] job.State = STATE_FAIL ->
            IF canRetrySequence(job.Id) THEN "notdone" ELSE "incomplete"
      [] job.State = STATE_UNKNOWN -> "incomplete"
      [] OTHER -> "panic"

jobVerdict_InvalidIgnored(job) ==
    CASE job.State = STATE_COMPLETE -> "continue"
      [] job.State = STATE_RUNNING -> "notdone"
      [] job.State = STATE_STOPPED -> "incomplete"
      [] job.State = STATE_PENDING ->
            IF isRunnable(job.Id) THEN "notdone" ELSE "incomplete"
      [] job.State \in {STATE_FAIL, STATE_UNKNOWN} ->
            IF canRetrySequence(job.Id) THEN "notdone" ELSE "incomplete"
      [] OTHER -> "incomplete"

jobVerdict(job) ==
    CASE job.State = STATE_COMPLETE -> "continue"
      [] job.State = STATE_RUNNING -> "notdone"
      [] job.State = STATE_STOPPED -> "incomplete"
      [] job.State = STATE_PENDING ->
            IF isRunnable(job.Id) THEN "notdone" ELSE "incomplete"
      [] job.State \in {STATE_FAIL, STATE_UNKNOWN} ->
            IF canRetrySequence(job.Id) THEN "notdone" ELSE "incomplete"
      [] OTHER -> "panic"

\* a scan that returns at the first job that is not complete
RECURSIVE scanJobs_StopAtIncomplete(_, _)
scanJobs_StopAtIncomplete(order, complete) ==
    IF order = <<>> THEN Verdict(TRUE, complete, FALSE)
    ELSE LET v == jobVerdict(jobs[Head(order)]) IN
         CASE v = "continue" -> scanJobs_StopAtIncomplete(Tail(order), complete)
           [] v = "notdone" -> Verdict(FALSE, FALSE, FALSE)
           [] v = "incomplete" -> Verdict(TRUE, FALSE, FALSE)
           [] v = "panic" -> Verdict(FALSE, FALSE, TRUE)

\* IsDoneRunning's loop over the Jobs map, visited in the order given
RECURSIVE scanJobs(_, _)
scanJobs(order, complete) ==
    IF order = <<>> THEN Verdict(TRUE, complete, FALSE)
    ELSE LET v == jobVerdict(jobs[Head(order)]) IN
         CASE v = "continue" -> scanJobs(Tail(order), complete)
           [] v = "notdone" -> Verdict(FALSE, FALSE, FALSE)
           [] v = "incomplete" -> scanJobs(Tail(order), FALSE)
           [] v = "panic" -> Verdict(FALSE, FALSE, TRUE)

RECURSIVE RangeOrders(_)
RangeOrders(S) ==
    IF S = {} THEN {<<>>}
    ELSE UNION {{<<x>> \o o : o \in RangeOrders(S \ {x})} : x \in S}

Orders == RangeOrders(DOMAIN jobs)

\* IsDoneRunning: complete starts true, then the loop
IsDoneRunning(order) == scanJobs(order, TRUE)

\* Every outcome IsDoneRunning can have in the current state
IsDoneRunningVerdicts == {IsDoneRunning(o) : o \in Orders}

IsRunnable(jobId) == isRunnable(jobId)

SequenceStartJob(jobId) ==
    MapGet(jobs, MapGet(jobs, jobId, ZeroJob).SequenceId, ZeroJob)

CanRetrySequence_OwnRetry(jobId) ==
    LET start == SequenceStartJob(jobId) IN
    MapGet(sequenceTries, start.Id, 0) <= MapGet(jobs, jobId, ZeroJob).SequenceRetry

CanRetrySequence_Strict(jobId) ==
    LET start == SequenceStartJob(jobId) IN
    MapGet(sequenceTries, start.Id, 0) < start.SequenceRetry

CanRetrySequence(jobId) ==
    LET start == SequenceStartJob(jobId) IN
    MapGet(sequenceTries, start.Id, 0) <= start.SequenceRetry

----------------------------------------------------------------------------
(* Calls of the public methods, one goroutine at a time *)

Ret(op, id, val, done, complete) ==
    [op |-> op, id |-> id, val |-> val, done |-> done, complete |-> complete,
     cur |-> 0, total |-> 0]
NoRet == Ret("", "", FALSE, FALSE, FALSE)

JobIds == DOMAIN jobs

CallIsRunnable(jobId) ==
    /\ ~panicked
    /\ UNCHANGED restVars
    /\ ret' = Ret("IsRunnable", jobId, IsRunnable(jobId), FALSE, FALSE)
    /\ UNCHANGED <<chainVars, triesVars, panicked, protoVars, procVars>>

CallIsDoneRunning ==
    /\ ~panicked
    /\ UNCHANGED restVars
    /\ \E v \in IsDoneRunningVerdicts :
        /\ panicked' = v.panic
        /\ ret' = Ret(IF v.panic THEN "IsDoneRunning panic" ELSE "IsDoneRunning",
                      "", FALSE, v.done, v.complete)
    /\ UNCHANGED <<chainVars, triesVars, protoVars, procVars>>

CallCanRetrySequence(jobId) ==
    /\ ~panicked
    /\ UNCHANGED restVars
    /\ ret' = Ret("CanRetrySequence", jobId, CanRetrySequence(jobId), FALSE, FALSE)
    /\ UNCHANGED <<chainVars, triesVars, panicked, protoVars, procVars>>

\* a SetJobState that only moves a job out of PENDING
SetJobState_IfPending(jobId, state) ==
    /\ ~panicked
    /\ UNCHANGED restVars
    /\ LET j == MapGet(jobs, jobId, ZeroJob) IN
       jobs' = IF j.State = STATE_PENDING
                  THEN MapPut(jobs, jobId, [j EXCEPT !.State = state])
                  ELSE jobs
    /\ ret' = Ret("SetJobState", "", FALSE, FALSE, FALSE)
    /\ UNCHANGED <<adjacencyList, triesVars, panicked, protoVars, procVars>>

\* SetJobState: j := Jobs[jobId]; j.State = state; Jobs[jobId] = j
SetJobState(jobId, state) ==
    /\ ~panicked
    /\ UNCHANGED restVars
    /\ LET j == MapGet(jobs, jobId, ZeroJob) IN
       jobs' = MapPut(jobs, jobId, [j EXCEPT !.State = state])
    /\ ret' = Ret("SetJobState", "", FALSE, FALSE, FALSE)
    /\ UNCHANGED <<adjacencyList, triesVars, panicked, protoVars, procVars>>

\* an IncrementSequenceTries that stores the count it has read
IncrementSequenceTriesMap_Lost(jobId, delta) ==
    LET seqId == MapGet(jobs, jobId, ZeroJob).SequenceId
        cur == ToInt(MapGet(sequenceTries, seqId, 0))
    IN MapPut(sequenceTries, seqId, ToUint(cur))

\* the value IncrementSequenceTries stores for the sequence of jobId
IncrementSequenceTriesMap(jobId, delta) ==
    LET seqId == MapGet(jobs, jobId, ZeroJob).SequenceId
        cur == ToInt(MapGet(sequenceTries, seqId, 0))
    IN MapPut(sequenceTries, seqId, ToUint(cur + delta))

IncrementSequenceTries(jobId, delta) ==
    /\ ~panicked
    /\ UNCHANGED restVars
    /\ sequenceTries' = IncrementSequenceTriesMap(jobId, delta)
    /\ ret' = Ret("IncrementSequenceTries", "", FALSE, FALSE, FALSE)
    /\ UNCHANGED <<chainVars, latestRunJobTries, totalJobTries, panicked,
                   protoVars, procVars>>

----------------------------------------------------------------------------
(* Goroutines calling the job-try methods. A sync.RWMutex is held by one   *)
(* writer or by any number of readers.                                     *)

Procs == 1..NumProcs

\* waiting: the goroutines blocked in Lock(); they keep new readers out
Unlocked == [writer |-> 0, readers |-> {}, waiting |-> {}]
\* a Lock() that does not wait for the readers to leave
CanLock_IgnoreReaders(mux) == mux.writer = 0
CanLock(mux) == mux.writer = 0 /\ mux.readers = {}
CanRLock(mux) == mux.writer = 0 /\ mux.waiting = {}

\* arguments of the running call, and the try maps as they were when it
\* took the lock
Frame(jobId, delta) ==
    [jobId |-> jobId, delta |-> delta,
     preLatest |-> latestRunJobTries, preTotal |-> totalJobTries]
NoFrame == [jobId |-> "", delta |-> 0, preLatest |-> EmptyMap, preTotal |-> EmptyMap]

RetTries(op, id, cur, total) ==
    [op |-> op, id |-> id, val |-> FALSE, done |-> FALSE, complete |-> FALSE,
     cur |-> cur, total |-> total]

\* IncrementJobTries: c.triesMux.Lock()
IncrementJobTriesLock(p, jobId, delta) ==
    /\ ~panicked
    /\ UNCHANGED restVars
    /\ pc[p] = "idle"
    /\ CanLock(triesMux)
    /\ triesMux' = [triesMux EXCEPT !.writer = p]
    /\ pc' = [pc EXCEPT ![p] = "ijt_total"]
    /\ frame' = [frame EXCEPT ![p] = Frame(jobId, delta)]
    /\ ret' = NoRet
    /\ UNCHANGED <<chainVars, triesVars, panicked, protoVars>>

\* the total counter changed by any delta, converted to uint unguarded
totalJobTriesAfter_AnyDelta(jobId, delta) ==
    MapPut(totalJobTries, jobId,
           ToUint(MapGet(totalJobTries, jobId, 0) + ToUint(delta)))

\* if delta > 0 { c.totalJobTries[jobId] += uint(delta) }
totalJobTriesAfter(jobId, delta) ==
    IF delta > 0
        THEN MapPut(totalJobTries, jobId,
                    ToUint(MapGet(totalJobTries, jobId, 0) + ToUint(delta)))
        ELSE totalJobTries

IncrementJobTriesTotal(p) ==
    /\ ~panicked
    /\ UNCHANGED restVars
    /\ pc[p] = "ijt_total"
    /\ totalJobTries' = totalJobTriesAfter(frame[p].jobId, frame[p].delta)
    /\ pc' = [pc EXCEPT ![p] = "ijt_latest"]
    /\ ret' = NoRet
    /\ UNCHANGED <<chainVars, sequenceTries, latestRunJobTries, panicked,
                   protoVars, triesMux, frame>>

\* cur := int(c.latestRunJobTries[jobId]); cur + delta in int arithmetic
latestSum(jobId, delta) ==
    ToInt(ToInt(MapGet(latestRunJobTries, jobId, 0)) + delta)

\* panic if cur + delta < 0 (the lock stays held), else store uint(cur + delta)
IncrementJobTriesLatest(p) ==
    /\ ~panicked
    /\ UNCHANGED restVars
    /\ pc[p] = "ijt_latest"
    /\ LET sum == latestSum(frame[p].jobId, frame[p].delta) IN
       IF sum < 0
       THEN /\ panicked' = TRUE
            /\ pc' = [pc EXCEPT ![p] = "panic"]
            /\ ret' = Ret("IncrementJobTries panic", frame[p].jobId,
                          FALSE, FALSE, FALSE)
            /\ UNCHANGED latestRunJobTries
       ELSE /\ latestRunJobTries' =
                    MapPut(latestRunJobTries, frame[p].jobId, ToUint(sum))
            /\ pc' = [pc EXCEPT ![p] = "ijt_unlock"]
            /\ ret' = NoRet
            /\ UNCHANGED panicked
    /\ UNCHANGED <<chainVars, sequenceTries, totalJobTries, protoVars,
                   triesMux, frame>>

\* c.triesMux.Unlock() and return
IncrementJobTriesUnlock(p) ==
    /\ ~panicked
    /\ UNCHANGED restVars
    /\ pc[p] = "ijt_unlock"
    /\ triesMux' = [triesMux EXCEPT !.writer = 0]
    /\ pc' = [pc EXCEPT ![p] = "idle"]
    /\ frame' = [frame EXCEPT ![p] = NoFrame]
    /\ ret' = Ret("IncrementJobTries", frame[p].jobId, FALSE, FALSE, FALSE)
    /\ UNCHANGED <<chainVars, triesVars, panicked, protoVars>>

\* JobTries: c.triesMux.RLock()
JobTriesRLock(p, jobId) ==
    /\ ~panicked
    /\ UNCHANGED restVars
    /\ pc[p] = "idle"
    /\ CanRLock(triesMux)
    /\ triesMux' = [triesMux EXCEPT !.readers = @ \cup {p}]
    /\ pc' = [pc EXCEPT ![p] = "jt_read"]
    /\ frame' = [frame EXCEPT ![p] = [NoFrame EXCEPT !.jobId = jobId]]
    /\ ret' = NoRet
    /\ UNCHANGED <<chainVars, triesVars, panicked, protoVars>>

\* return c.latestRunJobTries[jobId], c.totalJobTries[jobId], then the
\* deferred RUnlock
JobTriesReturn(p) ==
    /\ ~panicked
    /\ UNCHANGED restVars
    /\ pc[p] = "jt_read"
    /\ ret' = RetTries("JobTries", frame[p].jobId,
                       MapGet(latestRunJobTries, frame[p].jobId, 0),
                       MapGet(totalJobTries, frame[p].jobId, 0))
    /\ triesMux' = [triesMux EXCEPT !.readers = @ \ {p}]
    /\ pc' = [pc EXCEPT ![p] = "idle"]
    /\ frame' = [frame EXCEPT ![p] = NoFrame]
    /\ UNCHANGED <<chainVars, triesVars, panicked, protoVars>>

----------------------------------------------------------------------------
(* The counters read back, the finished-jobs counter, the chain state and  *)
(* the suspended job chain, one goroutine at a time                        *)

\* SequenceTries: the counter of the sequence the job is in
SequenceTries(jobId) ==
    MapGet(sequenceTries, MapGet(jobs, jobId, ZeroJob).SequenceId, 0)

CallSequenceTries(jobId) ==
    /\ ~panicked
    /\ ret' = RetTries("SequenceTries", jobId, SequenceTries(jobId), 0)
    /\ UNCHANGED <<chainVars, triesVars, panicked, protoVars, procVars, restVars>>

\* the sum with the sign of delta dropped
finishedSum_Magnitude(delta) ==
    ToInt(ToInt(finishedJobs) + (IF delta < 0 THEN 0 - delta ELSE delta))

\* cur := int(c.jobChain.FinishedJobs); cur + delta in int arithmetic
finishedSum(delta) == ToInt(ToInt(finishedJobs) + delta)

\* the stored count held at the number of jobs
finishedJobsAfter_Capped(delta) ==
    IF finishedSum(delta) > Cardinality(DOMAIN jobs)
        THEN Cardinality(DOMAIN jobs)
        ELSE ToUint(finishedSum(delta))

\* c.jobChain.FinishedJobs = uint(cur + delta)
finishedJobsAfter(delta) == ToUint(finishedSum(delta))

\* IncrementFinishedJobs: panic if cur + delta < 0, else store
IncrementFinishedJobs(delta) ==
    /\ ~panicked
    /\ IF finishedSum(delta) < 0
       THEN /\ panicked' = TRUE
            /\ ret' = Ret("IncrementFinishedJobs panic", "", FALSE, FALSE, FALSE)
            /\ UNCHANGED finishedJobs
       ELSE /\ finishedJobs' = finishedJobsAfter(delta)
            /\ ret' = Ret("IncrementFinishedJobs", "", FALSE, FALSE, FALSE)
            /\ UNCHANGED panicked
    /\ UNCHANGED <<chainVars, triesVars, protoVars, procVars, chainState,
                   requestId, sjc, built, otherVars>>

\* FinishedJobs
CallFinishedJobs ==
    /\ ~panicked
    /\ ret' = RetTries("FinishedJobs", "", finishedJobs, 0)
    /\ UNCHANGED <<chainVars, triesVars, panicked, protoVars, procVars, restVars>>

\* SetState
SetState(state) ==
    /\ ~panicked
    /\ chainState' = state
    /\ ret' = NoRet
    /\ UNCHANGED <<chainVars, triesVars, panicked, protoVars, procVars,
                   finishedJobs, requestId, sjc, built, otherVars>>

\* State
CallState ==
    /\ ~panicked
    /\ ret' = Ret("State", chainState, FALSE, FALSE, FALSE)
    /\ UNCHANGED <<chainVars, triesVars, panicked, protoVars, procVars, restVars>>

\* IncrementJobTries as one call of a single goroutine
IncrementJobTries(jobId, delta) ==
    /\ ~panicked
    /\ totalJobTries' = totalJobTriesAfter(jobId, delta)
    /\ IF latestSum(jobId, delta) < 0
       THEN /\ panicked' = TRUE
            /\ ret' = Ret("IncrementJobTries panic", jobId, FALSE, FALSE, FALSE)
            /\ UNCHANGED latestRunJobTries
       ELSE /\ latestRunJobTries' =
                    MapPut(latestRunJobTries, jobId, ToUint(latestSum(jobId, delta)))
            /\ ret' = NoRet
            /\ UNCHANGED panicked
    /\ UNCHANGED <<chainVars, sequenceTries, protoVars, procVars, restVars>>

\* Go maps and *proto.JobChain are references: a reference is the name of
\* the object it points to, and reading through it gives the object's
\* present value
Deref(ref) ==
    CASE ref = "sequenceTries" -> sequenceTries
      [] ref = "totalJobTries" -> totalJobTries
      [] ref = "latestRunJobTries" -> latestRunJobTries

DerefJobs(ref) == CASE ref = "jobChain" -> jobs

\* ToSuspended: the three maps and the job chain are put in the result by
\* reference, the request id by value. was* remember the maps' values at the
\* time of the call.
ToSuspended ==
    /\ ~panicked
    /\ sjc' = [taken |-> TRUE,
               RequestId |-> requestId,
               JobChain |-> "jobChain",
               SequenceTries |-> "sequenceTries",
               TotalJobTries |-> "totalJobTries",
               LatestRunJobTries |-> "latestRunJobTries",
               wasSequenceTries |-> sequenceTries,
               wasTotalJobTries |-> totalJobTries,
               wasLatestRunJobTries |-> latestRunJobTries]
    /\ ret' = NoRet
    /\ UNCHANGED <<chainVars, triesVars, panicked, protoVars, procVars,
                   jcVars, built, otherVars>>

\* NewChain(jc, sequenceTries, totalJobTries, latestRunJobTries): every nil
\* Data is replaced in jc.Jobs; the Chain keeps the four references it is
\* given. ret.val tells a Chain built from a suspended job chain.
CallNewChain(jc, st, tt, lt, resumed) ==
    /\ ~panicked
    /\ jobs' = NewChain(DerefJobs(jc))
    /\ sequenceTries' = Deref(st)
    /\ totalJobTries' = Deref(tt)
    /\ latestRunJobTries' = Deref(lt)
    /\ built' = TRUE
    /\ ret' = Ret("NewChain", "", resumed, FALSE, FALSE)
    /\ UNCHANGED <<adjacencyList, panicked, protoVars, procVars, jcVars, sjc,
                   otherVars>>

\* the first Chain over the job chain and the maps of the caller
Construct ==
    /\ ~built
    /\ CallNewChain("jobChain", "sequenceTries", "totalJobTries",
                    "latestRunJobTries", FALSE)

\* NewChain(sjc.JobChain, sjc.SequenceTries, sjc.TotalJobTries,
\*          sjc.LatestRunJobTries)
Resume ==
    /\ built
    /\ sjc.taken
    /\ CallNewChain(sjc.JobChain, sjc.SequenceTries, sjc.TotalJobTries,
                    sjc.LatestRunJobTries, TRUE)

\* every job of the chain in the order of the range
RunnableJobs_All(order) == [i \in 1..Len(order) |-> jobs[order[i]]]

\* RunnableJobs: range over the Jobs map in some order, appending every job
\* that IsRunnable
RECURSIVE RunnableJobs(_)
RunnableJobs(order) ==
    IF order = <<>> THEN <<>>
    ELSE IF ~IsRunnable(Head(order))
         THEN RunnableJobs(Tail(order))
         ELSE <<jobs[Head(order)]>> \o RunnableJobs(Tail(order))

RetJobs(op, list) == [op |-> op, jobs |-> list]

CallRunnableJobs ==
    /\ ~panicked
    /\ \E order \in Orders : ret' = RetJobs("RunnableJobs", RunnableJobs(order))
    /\ UNCHANGED <<chainVars, triesVars, panicked, protoVars, procVars, restVars>>

\* FailedJobs
FailedJobs ==
    Cardinality({id \in DOMAIN jobs :
                    jobs[id].State \in {STATE_FAIL, STATE_UNKNOWN}})

\* JobState, JobTries
JobState(jobId) == MapGet(jobs, jobId, ZeroJob).State
JobTries(jobId) ==
    <<MapGet(latestRunJobTries, jobId, 0), MapGet(totalJobTries, jobId, 0)>>

RetState(op, id, state) == [op |-> op, id |-> id, state |-> state]

\* NextJobs without its first successor
NextJobs_SkipFirst(jobId) ==
    IF jobId \in DOMAIN adjacencyList /\ adjacencyList[jobId] # <<>>
    THEN LET ids == SelectSeq(Tail(adjacencyList[jobId]),
                              LAMBDA id : id \in DOMAIN jobs)
         IN [i \in 1..Len(ids) |-> jobs[ids[i]]]
    ELSE <<>>

\* NextJobs: the jobs of AdjacencyList[jobId] that are in the Jobs map, in
\* the order of the list; nothing when jobId is not a key
NextJobs(jobId) ==
    IF jobId \in DOMAIN adjacencyList
    THEN LET ids == SelectSeq(adjacencyList[jobId],
                              LAMBDA id : id \in DOMAIN jobs)
         IN [i \in 1..Len(ids) |-> jobs[ids[i]]]
    ELSE <<>>

RetJobsOf(op, id, list) == [op |-> op, id |-> id, jobs |-> list]

CallNextJobs(jobId) ==
    /\ ~panicked
    /\ ret' = RetJobsOf("NextJobs", jobId, NextJobs(jobId))
    /\ UNCHANGED <<chainVars, triesVars, panicked, protoVars, procVars, restVars>>

\* previousJobs appends in the order of its range over the adjacency list
CallPreviousJobs(jobId) ==
    /\ ~panicked
    /\ \E order \in RangeOrders(previousJobs(jobId)) :
            ret' = RetJobsOf("previousJobs", jobId, order)
    /\ UNCHANGED <<chainVars, triesVars, panicked, protoVars, procVars, restVars>>

CallJobState(jobId) ==
    /\ ~panicked
    /\ ret' = RetState("JobState", jobId, JobState(jobId))
    /\ UNCHANGED <<chainVars, triesVars, panicked, protoVars, procVars, restVars>>

----------------------------------------------------------------------------
(* Spec: the chain of the tests (1 -> {2,3}, 2 -> 4, one sequence started  *)
(* by job1), its job states and sequence tries driven by any calls         *)

TestSequenceRetry == 2

TestJobs ==
    [id \in {"job1", "job2", "job3", "job4"} |->
        Job(id, STATE_PENDING, "job1",
            IF id = "job1" THEN TestSequenceRetry ELSE 0, "nil")]

TestAdjacencyList ==
    [id \in {"job1", "job2"} |->
        IF id = "job1" THEN <<"job2", "job3">> ELSE <<"job4">>]

\* the tests increment by 1 at the start of a sequence try and by more to
\* exhaust the retries
TestDeltas == {1, 2}

IdleProcs ==
    /\ triesMux = Unlocked
    /\ pc = [p \in Procs |-> "idle"]
    /\ frame = [p \in Procs |-> NoFrame]

\* the other fields of the JobChain literal of the tests (zero values) and
\* no suspended job chain yet
NoSjc ==
    [taken |-> FALSE, RequestId |-> "", JobChain |-> "", SequenceTries |-> "",
     TotalJobTries |-> "", LatestRunJobTries |-> "",
     wasSequenceTries |-> EmptyMap, wasTotalJobTries |-> EmptyMap,
     wasLatestRunJobTries |-> EmptyMap]

\* the zero value of proto.RequestFilter
ZeroFilter ==
    [Type |-> <<>>, States |-> <<>>, User |-> <<>>, Since |-> <<>>,
     Until |-> <<>>, Limit |-> 0, Offset |-> 0]

\* jobsMux as NewChain makes it; no find command
NoFind ==
    /\ jobsMux = Unlocked
    /\ args = <<>>
    /\ filter = ZeroFilter
    /\ calls = 0

FreshJobChain ==
    /\ finishedJobs = 0
    /\ chainState = STATE_UNKNOWN
    /\ requestId = ""
    /\ sjc = NoSjc
    /\ built = TRUE
    /\ NoFind

NoProtocol ==
    /\ attempts = EmptyMap
    /\ phase = EmptyMap

\* the chain of TestNextJobs: 1 -> {2,3}, 2 -> 4, 3 -> 4
DiamondAdjacencyList ==
    [id \in {"job1", "job2", "job3"} |->
        IF id = "job1" THEN <<"job2", "job3">> ELSE <<"job4">>]

Init ==
    /\ jobs = NewChain(TestJobs)
    /\ adjacencyList \in {TestAdjacencyList, DiamondAdjacencyList}
    /\ sequenceTries = EmptyMap
    /\ latestRunJobTries = EmptyMap
    /\ totalJobTries = EmptyMap
    /\ panicked = FALSE
    /\ ret = NoRet
    /\ NoProtocol
    /\ IdleProcs
    /\ FreshJobChain

Next ==
    \/ \E id \in JobIds, s \in AllStates : SetJobState(id, s)
    \/ \E id \in JobIds, d \in TestDeltas :
        /\ MapGet(sequenceTries, jobs[id].SequenceId, 0) + d <= MaxSeqTries
        /\ IncrementSequenceTries(id, d)
    \/ \E id \in JobIds : CallIsRunnable(id)
    \/ CallIsDoneRunning

Spec == Init /\ [][Next]_vars

----------------------------------------------------------------------------
(* SpecSeq: the chain of the retry tests (1 -> 2 -> 3 -> 4) split in two   *)
(* sequences, started by job1 and job3; any job of a sequence is used to   *)
(* increment its tries, by any int, and to ask whether it can be retried   *)

SeqJobs(retry1, retry3) ==
    [id \in {"job1", "job2", "job3", "job4"} |->
        Job(id, STATE_PENDING,
            IF id \in {"job1", "job2"} THEN "job1" ELSE "job3",
            CASE id = "job1" -> retry1 [] id = "job3" -> retry3 [] OTHER -> 0,
            "nil")]

SeqAdjacencyList ==
    [id \in {"job1", "job2", "job3"} |->
        CASE id = "job1" -> <<"job2">> [] id = "job2" -> <<"job3">>
          [] OTHER -> <<"job4">>]

InitSeq ==
    /\ \E retry1, retry3 \in 0..MaxRetry : jobs = NewChain(SeqJobs(retry1, retry3))
    /\ adjacencyList = SeqAdjacencyList
    /\ sequenceTries = EmptyMap
    /\ latestRunJobTries = EmptyMap
    /\ totalJobTries = EmptyMap
    /\ panicked = FALSE
    /\ ret = NoRet
    /\ NoProtocol
    /\ IdleProcs
    /\ FreshJobChain

NextSeq ==
    \/ \E id \in JobIds, d \in IntRange : IncrementSequenceTries(id, d)
    \/ \E id \in JobIds : CallCanRetrySequence(id)
    \/ \E id \in JobIds : CallSequenceTries(id)

SpecSeq == InitSeq /\ [][NextSeq]_vars

----------------------------------------------------------------------------
(* SpecRetry: the caller's retry protocol on the same chain. A sequence    *)
(* attempt starts with IncrementSequenceTries(+1); after a failed attempt  *)
(* another one starts only if CanRetrySequence says so.                    *)

Sequences == {jobs[id].SequenceId : id \in JobIds}
JobsOf(seq) == {id \in JobIds : jobs[id].SequenceId = seq}

StartAttempt(seq) ==
    /\ ~panicked
    /\ UNCHANGED restVars
    /\ phase[seq] \in {"idle", "retry"}
    /\ \E id \in JobsOf(seq) : sequenceTries' = IncrementSequenceTriesMap(id, 1)
    /\ attempts' = [attempts EXCEPT ![seq] = @ + 1]
    /\ phase' = [phase EXCEPT ![seq] = "running"]
    /\ ret' = Ret("IncrementSequenceTries", "", FALSE, FALSE, FALSE)
    /\ UNCHANGED <<chainVars, latestRunJobTries, totalJobTries, panicked, procVars>>

FailAttempt(seq) ==
    /\ ~panicked
    /\ UNCHANGED restVars
    /\ phase[seq] = "running"
    /\ \E id \in JobsOf(seq) :
        /\ ret' = Ret("CanRetrySequence", id, CanRetrySequence(id), FALSE, FALSE)
        /\ phase' = [phase EXCEPT ![seq] =
                        IF CanRetrySequence(id) THEN "retry" ELSE "exhausted"]
    /\ UNCHANGED <<chainVars, triesVars, panicked, attempts, procVars>>

SucceedAttempt(seq) ==
    /\ ~panicked
    /\ UNCHANGED restVars
    /\ phase[seq] = "running"
    /\ phase' = [phase EXCEPT ![seq] = "succeeded"]
    /\ ret' = NoRet
    /\ UNCHANGED <<chainVars, triesVars, panicked, attempts, procVars>>

InitRetry ==
    /\ \E retry1, retry3 \in 0..MaxRetry : jobs = NewChain(SeqJobs(retry1, retry3))
    /\ adjacencyList = SeqAdjacencyList
    /\ sequenceTries = EmptyMap
    /\ latestRunJobTries = EmptyMap
    /\ totalJobTries = EmptyMap
    /\ panicked = FALSE
    /\ ret = NoRet
    /\ attempts = [seq \in {"job1", "job3"} |-> 0]
    /\ phase = [seq \in {"job1", "job3"} |-> "idle"]
    /\ IdleProcs
    /\ FreshJobChain

NextRetry ==
    \/ \E seq \in Sequences : StartAttempt(seq)
    \/ \E seq \in Sequences : FailAttempt(seq)
    \/ \E seq \in Sequences : SucceedAttempt(seq)

SpecRetry == InitRetry /\ [][NextRetry]_vars

----------------------------------------------------------------------------
(* SpecFinished: the one-job chain of TestSetJobState; the finished-jobs   *)
(* counter is moved by small signed deltas up to MaxFinished, the job      *)
(* state and the chain state are set and read                              *)

OneJob == [id \in {"job1"} |-> Job("job1", STATE_PENDING, "job1", 0, "nil")]

FinishedDeltas == {-2, -1, 0, 1, 2}

InitFinished ==
    /\ jobs = NewChain(OneJob)
    /\ adjacencyList = [id \in {} |-> <<>>]
    /\ sequenceTries = EmptyMap
    /\ latestRunJobTries = EmptyMap
    /\ totalJobTries = EmptyMap
    /\ panicked = FALSE
    /\ ret = NoRet
    /\ NoProtocol
    /\ IdleProcs
    /\ FreshJobChain

NextFinished ==
    \/ \E d \in FinishedDeltas :
        /\ finishedJobs + d <= MaxFinished
        /\ IncrementFinishedJobs(d)
    \/ CallFinishedJobs
    \/ \E state \in AllStates : SetJobState("job1", state)
    \/ \E state \in AllStates : SetState(state)
    \/ CallState

SpecFinished == InitFinished /\ [][NextFinished]_vars

----------------------------------------------------------------------------
(* SpecResume: the suspended job chain of TestRunnableJobs (1 -> {2,3},    *)
(* 2 -> {4,5}, 3 -> 4, populated try maps). NewChain builds the Chain; the  *)
(* states of job3 and job4 and the counters move; ToSuspended is called    *)
(* and a Chain is built again from its result.                             *)

ResumeJobs ==
    [id \in {"job1", "job2", "job3", "job4", "job5"} |->
        Job(id,
            CASE id \in {"job1", "job2"} -> STATE_COMPLETE
              [] id = "job3" -> STATE_STOPPED
              [] OTHER -> STATE_PENDING,
            "job1",
            IF id = "job1" THEN 1 ELSE 0,
            "nil")]

ResumeAdjacencyList ==
    [id \in {"job1", "job2", "job3"} |->
        CASE id = "job1" -> <<"job2", "job3">>
          [] id = "job2" -> <<"job4", "job5">>
          [] id = "job3" -> <<"job4">>]

ResumeTotalJobTries ==
    [id \in {"job1", "job2", "job3", "job4"} |->
        CASE id \in {"job1", "job2"} -> 2 [] id = "job3" -> 3 [] id = "job4" -> 1]

ResumeLatestRunJobTries ==
    [id \in {"job1", "job2", "job3", "job4"} |->
        IF id = "job3" THEN 2 ELSE 1]

ResumeSequenceTries == [id \in {"job1"} |-> 1]

\* job states a traversal leaves behind
ResumeStates == {STATE_PENDING, STATE_COMPLETE, STATE_FAIL, STATE_STOPPED}

InitResume ==
    /\ jobs = ResumeJobs
    /\ adjacencyList = ResumeAdjacencyList
    /\ sequenceTries = ResumeSequenceTries
    /\ latestRunJobTries = ResumeLatestRunJobTries
    /\ totalJobTries = ResumeTotalJobTries
    /\ finishedJobs = 2
    /\ chainState = STATE_RUNNING
    /\ requestId = "resume"
    /\ sjc = NoSjc
    /\ built = FALSE
    /\ NoFind
    /\ panicked = FALSE
    /\ ret = NoRet
    /\ NoProtocol
    /\ IdleProcs

NextResume ==
    \/ Construct
    \/ \E id \in {"job3", "job4"}, state \in ResumeStates :
        built /\ SetJobState(id, state)
    \/ \E d \in {-1, 1} :
        /\ built
        /\ MapGet(totalJobTries, "job3", 0) + d <= MaxJobTotal
        /\ IncrementJobTries("job3", d)
    \/ /\ built
       /\ SequenceTries("job3") + 1 <= MaxSeqTries
       /\ IncrementSequenceTries("job3", 1)
    \/ built /\ ToSuspended
    \/ Resume

SpecResume == InitResume /\ [][NextResume]_vars

----------------------------------------------------------------------------
(* SpecRunnable: the Chain built from the same suspended job chain; the    *)
(* states of job3, job4 and job5 are set and RunnableJobs is called        *)

NextRunnable ==
    \/ Construct
    \/ \E id \in {"job3", "job4", "job5"}, state \in ResumeStates :
        built /\ SetJobState(id, state)
    \/ built /\ CallRunnableJobs

SpecRunnable == InitResume /\ [][NextRunnable]_vars

----------------------------------------------------------------------------
(* SpecState: the chain of the tests; the states of job1 and job2 and the  *)
(* chain state are set to any state and read back                          *)

StateJobIds == {"job1", "job2"}

InitState ==
    /\ Init
    /\ adjacencyList = TestAdjacencyList

NextState ==
    \/ \E id \in StateJobIds, state \in AllStates : SetJobState(id, state)
    \/ \E id \in JobIds : CallJobState(id)
    \/ \E state \in AllStates : SetState(state)
    \/ CallState

SpecState == InitState /\ [][NextState]_vars

----------------------------------------------------------------------------
(* SpecGraph: the four jobs of the tests with any acyclic adjacency list   *)
(* (edges from a lower to a higher job number); NextJobs and previousJobs  *)
(* are called on every job and on an id that is not in the chain           *)

JobNames == <<"job1", "job2", "job3", "job4">>
GraphEdges == {e \in (1..4) \X (1..4) : e[1] < e[2]}

\* the adjacency list with the edges E: a key for every job with successors
AdjacencyOf(E) ==
    [id \in {JobNames[e[1]] : e \in E} |->
        LET i == CHOOSE k \in 1..4 : JobNames[k] = id
            succ == SelectSeq(<<1, 2, 3, 4>>, LAMBDA j : <<i, j>> \in E)
        IN [n \in 1..Len(succ) |-> JobNames[succ[n]]]]

GraphIds == {"job1", "job2", "job3", "job4", "job9"}

InitGraph ==
    /\ jobs = NewChain(TestJobs)
    /\ \E E \in SUBSET GraphEdges : adjacencyList = AdjacencyOf(E)
    /\ sequenceTries = EmptyMap
    /\ latestRunJobTries = EmptyMap
    /\ totalJobTries = EmptyMap
    /\ panicked = FALSE
    /\ ret = NoRet
    /\ NoProtocol
    /\ IdleProcs
    /\ FreshJobChain

NextGraph ==
    \/ \E id \in GraphIds : CallNextJobs(id)
    \/ \E id \in GraphIds : CallPreviousJobs(id)

SpecGraph == InitGraph /\ [][NextGraph]_vars

----------------------------------------------------------------------------
(* spinc find: Find.Prepare. A string is a sequence of tokens; a filter    *)
(* name, a state name, a digit, "=" and "," are one token each, "DATE" is  *)
(* the 20 characters "YYYY-MM-DD HH:MM:SS " of a well-formed time and      *)
(* "UTC" its zone.                                                         *)

findLimitDefault == 10
findUtcIndex == 20

validFilters ==
    {<<"type">>, <<"states">>, <<"user">>, <<"since">>, <<"until">>,
     <<"limit">>, <<"offset">>}

\* the names of proto.StateValue
StateValue ==
    {"PENDING", "RUNNING", "COMPLETE", "FAIL", "STOPPED", "SUSPENDED", "UNKNOWN"}

Digits == {"0", "5"}
DigitValue(d) == IF d = "5" THEN 5 ELSE 0

\* the number of characters of a token
TokLen(tok) ==
    CASE tok = "DATE" -> 20 [] tok = "UTC" -> 3 [] tok \in {"=", ","} -> 1
      [] tok \in Digits -> 1 [] OTHER -> 4

Positions(str, tok) == {i \in 1..Len(str) : str[i] = tok}
Least(S) == CHOOSE i \in S : \A j \in S : i <= j

\* strings.SplitN(str, sep, 2): at most two parts, cut at the first sep
SplitN(str, sep) ==
    IF Positions(str, sep) = {} THEN <<str>>
    ELSE LET k == Least(Positions(str, sep))
         IN <<SubSeq(str, 1, k - 1), SubSeq(str, k + 1, Len(str))>>

\* strings.Split(str, sep): every part
RECURSIVE Split(_, _)
Split(str, sep) ==
    IF Positions(str, sep) = {} THEN <<str>>
    ELSE LET k == Least(Positions(str, sep))
         IN <<SubSeq(str, 1, k - 1)>> \o Split(SubSeq(str, k + 1, Len(str)), sep)

\* strings.Index(str, tok) in characters, -1 when tok is not in str
RECURSIVE CharLen(_)
CharLen(str) == IF str = <<>> THEN 0 ELSE TokLen(Head(str)) + CharLen(Tail(str))
Index(str, tok) ==
    IF Positions(str, tok) = {} THEN -1
    ELSE CharLen(SubSeq(str, 1, Least(Positions(str, tok)) - 1))

\* time.Parse(findTimeFmtStr, str) succeeds
TimeParses(str) == str = <<"DATE", "UTC">>

\* strconv.ParseUint(str, 10, strconv.IntSize)
UintParses(str) == str # <<>> /\ \A i \in 1..Len(str) : str[i] \in Digits
RECURSIVE UintOf(_)
UintOf(str) ==
    IF str = <<>> THEN 0
    ELSE 10 * UintOf(SubSeq(str, 1, Len(str) - 1)) + DigitValue(str[Len(str)])

Parsed(err, filters) == [err |-> err, filters |-> filters]

\* the parse loop with a later value of a filter replacing the earlier one
RECURSIVE parseArgs_LastWins(_, _)
parseArgs_LastWins(rest, filters) ==
    IF rest = <<>> THEN Parsed("nil", filters)
    ELSE LET split == SplitN(Head(rest), "=") IN
         IF Len(split) # 2 THEN Parsed("Invalid command arg", filters)
         ELSE IF split[1] \notin validFilters
              THEN Parsed("Invalid filter", filters)
              ELSE parseArgs_LastWins(Tail(rest), MapPut(filters, split[1], split[2]))

\* the parse loop over ctx.Command.Args
RECURSIVE parseArgs(_, _)
parseArgs(rest, filters) ==
    IF rest = <<>> THEN Parsed("nil", filters)
    ELSE LET split == SplitN(Head(rest), "=") IN
         IF Len(split) # 2 THEN Parsed("Invalid command arg", filters)
         ELSE IF split[1] \notin validFilters
              THEN Parsed("Invalid filter", filters)
              ELSE IF split[1] \in DOMAIN filters
                   THEN Parsed("Filter specified multiple times", filters)
                   ELSE parseArgs(Tail(rest), MapPut(filters, split[1], split[2]))

\* the error of a time filter, "nil" when it is absent or parses
TimeError(value) ==
    IF value = <<>> THEN "nil"
    ELSE IF Index(value, "UTC") # findUtcIndex THEN "Invalid time, expected UTC at index"
    ELSE IF ~TimeParses(value) THEN "Invalid time, expected form"
    ELSE "nil"

\* Prepare up to its return: the error ("nil" for none) and the filter built
PrepareResult ==
    LET parsed == parseArgs(args, EmptyMap)
        f(name) == MapGet(parsed.filters, <<name>>, <<>>)
        stateNames == IF Len(f("states")) > 0 THEN Split(f("states"), ",") ELSE <<>>
        limit == IF f("limit") = <<>> THEN findLimitDefault ELSE UintOf(f("limit"))
        offset == IF f("offset") # <<>> THEN UintOf(f("offset")) ELSE 0
        built2 == [Type |-> f("type"), States |-> stateNames, User |-> f("user"),
                   Since |-> f("since"), Until |-> f("until"),
                   Limit |-> limit, Offset |-> offset]
        err ==
            IF parsed.err # "nil" THEN parsed.err
            ELSE IF \E i \in 1..Len(stateNames) :
                        ~(Len(stateNames[i]) = 1 /\ stateNames[i][1] \in StateValue)
                 THEN "Invalid state"
            ELSE IF TimeError(f("since")) # "nil" THEN TimeError(f("since"))
            ELSE IF TimeError(f("until")) # "nil" THEN TimeError(f("until"))
            ELSE IF f("limit") # <<>> /\ ~UintParses(f("limit")) THEN "Invalid limit"
            ELSE IF f("offset") # <<>> /\ ~UintParses(f("offset")) THEN "Invalid offset"
            ELSE "nil"
    IN [err |-> err, filter |-> built2]

RetErr(op, err) == [op |-> op, err |-> err]

\* Prepare: c.filter is assigned only when no error is returned
Prepare ==
    /\ ~panicked
    /\ ret' = RetErr("Prepare", PrepareResult.err)
    /\ filter' = IF PrepareResult.err = "nil" THEN PrepareResult.filter ELSE filter
    /\ UNCHANGED <<chainVars, triesVars, panicked, protoVars, procVars,
                   jcVars, sjc, built, jobsMux, args, calls>>

\* the arguments tried: a name or nothing, "=" or nothing, a value
FindNames ==
    {<<>>, <<"type">>, <<"states">>, <<"since">>, <<"limit">>, <<"offset">>,
     <<"bogus">>}
FindValues ==
    {<<>>, <<"5">>, <<"RUNNING">>, <<"RUNNING", ",", "5">>, <<"DATE", "UTC">>}
FindArgs == {n \o sp \o v : n \in FindNames, sp \in {<<>>, <<"=">>}, v \in FindValues}

RECURSIVE ArgLists(_)
ArgLists(n) ==
    IF n = 0 THEN {<<>>}
    ELSE ArgLists(n - 1) \cup
         {<<a>> \o l : a \in FindArgs, l \in {x \in ArgLists(n - 1) : Len(x) = n - 1}}

InitFind ==
    /\ args \in ArgLists(MaxArgs)
    /\ filter = ZeroFilter
    /\ jobsMux = Unlocked
    /\ calls = 0
    /\ jobs = EmptyMap
    /\ adjacencyList = EmptyMap
    /\ sequenceTries = EmptyMap
    /\ latestRunJobTries = EmptyMap
    /\ totalJobTries = EmptyMap
    /\ finishedJobs = 0
    /\ chainState = STATE_UNKNOWN
    /\ requestId = ""
    /\ sjc = NoSjc
    /\ built = FALSE
    /\ panicked = FALSE
    /\ ret = NoRet
    /\ NoProtocol
    /\ IdleProcs

NextFind == Prepare

SpecFind == InitFind /\ [][NextFind]_vars

----------------------------------------------------------------------------
(* Goroutines calling the Chain methods, one lock operation or one access  *)
(* of the guarded data per step. pc names the step a goroutine is about to *)
(* take; a goroutine at "idle" runs no method.                             *)

\* sync.RWMutex
Request(mux, p) == [mux EXCEPT !.waiting = @ \cup {p}]
Lock(mux, p) == [mux EXCEPT !.writer = p, !.waiting = @ \ {p}]
\* an Unlock() that leaves the mutex locked
Unlock_Keep(mux) == mux
Unlock(mux) == [mux EXCEPT !.writer = 0]
RLock(mux, p) == [mux EXCEPT !.readers = @ \cup {p}]
\* an RUnlock() that leaves the read lock held
RUnlock_Keep(mux, p) == mux
RUnlock(mux, p) == [mux EXCEPT !.readers = @ \ {p}]

\* arguments and locals of the running call. snap is the Jobs map as it was
\* when the call read-locked jobsMux, cur and job are what the call has
\* read and not yet written back.
Local(jobId) ==
    [jobId |-> jobId, state |-> "", delta |-> 0, todo |-> <<>>,
     complete |-> TRUE, acc |-> <<>>, snap |-> EmptyMap, seqId |-> "",
     job |-> ZeroJob, cur |-> 0]

Goto(p, to, fr) ==
    /\ pc' = [pc EXCEPT ![p] = to]
    /\ frame' = [frame EXCEPT ![p] = fr]

\* a goroutine that runs no method begins a call
Begin(p) ==
    /\ ~panicked
    /\ pc[p] = "idle"
    /\ calls < MaxCalls
    /\ calls' = calls + 1

At(p, at) ==
    /\ ~panicked
    /\ pc[p] = at
    /\ UNCHANGED calls

\* what no method changes after construction, and the try maps of the jobs
lockConst ==
    <<adjacencyList, latestRunJobTries, totalJobTries, protoVars, requestId,
      built, args, filter>>

\* SetJobState: c.jobsMux.Lock() is called
SetJobStateCall(p, jobId, state) ==
    /\ Begin(p)
    /\ jobsMux' = Request(jobsMux, p)
    /\ Goto(p, "sjs_lock", [Local(jobId) EXCEPT !.state = state])
    /\ ret' = NoRet
    /\ UNCHANGED <<jobs, sequenceTries, panicked, triesMux, finishedJobs,
                   chainState, sjc, lockConst>>

\* c.jobsMux.Lock() returns; j := Jobs[jobId]
SetJobStateLock(p) ==
    /\ At(p, "sjs_lock")
    /\ CanLock(jobsMux)
    /\ jobsMux' = Lock(jobsMux, p)
    /\ Goto(p, "sjs_store",
            [frame[p] EXCEPT !.job = MapGet(jobs, frame[p].jobId, ZeroJob)])
    /\ ret' = NoRet
    /\ UNCHANGED <<jobs, sequenceTries, panicked, triesMux, finishedJobs,
                   chainState, sjc, lockConst>>

\* j.State = state; Jobs[jobId] = j; c.jobsMux.Unlock()
SetJobStateStore(p) ==
    /\ At(p, "sjs_store")
    /\ jobs' = MapPut(jobs, frame[p].jobId,
                      [frame[p].job EXCEPT !.State = frame[p].state])
    /\ jobsMux' = Unlock(jobsMux)
    /\ Goto(p, "idle", NoFrame)
    /\ ret' = Ret("SetJobState", frame[p].jobId, FALSE, FALSE, FALSE)
    /\ UNCHANGED <<sequenceTries, panicked, triesMux, finishedJobs,
                   chainState, sjc, lockConst>>

\* IsDoneRunning: c.jobsMux.RLock(); the range over Jobs will visit the
\* jobs in the order given
IsDoneRunningRLock(p, order) ==
    /\ Begin(p)
    /\ CanRLock(jobsMux)
    /\ jobsMux' = RLock(jobsMux, p)
    /\ Goto(p, "idr_scan", [Local("") EXCEPT !.todo = order, !.snap = jobs])
    /\ ret' = NoRet
    /\ UNCHANGED <<jobs, sequenceTries, panicked, triesMux, finishedJobs,
                   chainState, sjc, lockConst>>

\* return done, complete with the deferred c.jobsMux.RUnlock()
idrReturn(p, done, complete) ==
    /\ jobsMux' = RUnlock(jobsMux, p)
    /\ Goto(p, "idle", NoFrame)
    /\ ret' = Ret("IsDoneRunning", "", FALSE, done, complete)
    /\ UNCHANGED <<panicked, triesMux>>

\* the loop goes on to the next job
idrContinue(p, complete) ==
    /\ Goto(p, "idr_scan",
            [frame[p] EXCEPT !.todo = Tail(@), !.complete = complete])
    /\ ret' = NoRet
    /\ UNCHANGED <<panicked, triesMux, jobsMux>>

\* one turn of the loop up to a return, the next turn, the call of
\* canRetrySequence, or the panic (the deferred RUnlock runs)
IsDoneRunningScan(p) ==
    /\ At(p, "idr_scan")
    /\ LET f == frame[p] IN
       IF f.todo = <<>> THEN idrReturn(p, TRUE, f.complete)
       ELSE LET job == jobs[Head(f.todo)] IN
            CASE job.State = STATE_COMPLETE -> idrContinue(p, f.complete)
              [] job.State = STATE_RUNNING -> idrReturn(p, FALSE, FALSE)
              [] job.State = STATE_STOPPED -> idrContinue(p, FALSE)
              [] job.State = STATE_PENDING ->
                    IF isRunnable(job.Id) THEN idrReturn(p, FALSE, FALSE)
                    ELSE idrContinue(p, FALSE)
              [] job.State \in {STATE_FAIL, STATE_UNKNOWN} ->
                    /\ Goto(p, "idr_rlock", [f EXCEPT !.jobId = job.Id])
                    /\ ret' = NoRet
                    /\ UNCHANGED <<panicked, triesMux, jobsMux>>
              [] OTHER ->
                    /\ panicked' = TRUE
                    /\ jobsMux' = RUnlock(jobsMux, p)
                    /\ Goto(p, "panic", f)
                    /\ ret' = Ret("IsDoneRunning panic", "", FALSE, FALSE, FALSE)
                    /\ UNCHANGED triesMux
    /\ UNCHANGED <<jobs, sequenceTries, finishedJobs, chainState, sjc, lockConst>>

\* canRetrySequence: c.triesMux.RLock(), with jobsMux still read-locked
IsDoneRunningTriesRLock(p) ==
    /\ At(p, "idr_rlock")
    /\ CanRLock(triesMux)
    /\ triesMux' = RLock(triesMux, p)
    /\ Goto(p, "idr_read", frame[p])
    /\ ret' = NoRet
    /\ UNCHANGED <<jobs, sequenceTries, panicked, jobsMux, finishedJobs,
                   chainState, sjc, lockConst>>

\* canRetrySequence returns with its deferred c.triesMux.RUnlock(); the
\* loop returns false, false or goes on with complete = false
IsDoneRunningTriesRead(p) ==
    /\ At(p, "idr_read")
    /\ triesMux' = RUnlock(triesMux, p)
    /\ IF canRetrySequence(frame[p].jobId)
       THEN /\ jobsMux' = RUnlock(jobsMux, p)
            /\ Goto(p, "idle", NoFrame)
            /\ ret' = Ret("IsDoneRunning", "", FALSE, FALSE, FALSE)
       ELSE /\ Goto(p, "idr_scan",
                    [frame[p] EXCEPT !.todo = Tail(@), !.complete = FALSE])
            /\ ret' = NoRet
            /\ UNCHANGED jobsMux
    /\ UNCHANGED <<jobs, sequenceTries, panicked, finishedJobs, chainState,
                   sjc, lockConst>>

\* IncrementSequenceTries: c.jobsMux.RLock()
IncrementSequenceTriesRLock(p, jobId, delta) ==
    /\ Begin(p)
    /\ CanRLock(jobsMux)
    /\ jobsMux' = RLock(jobsMux, p)
    /\ Goto(p, "ist_start", [Local(jobId) EXCEPT !.delta = delta])
    /\ ret' = NoRet
    /\ UNCHANGED <<jobs, sequenceTries, panicked, triesMux, finishedJobs,
                   chainState, sjc, lockConst>>

\* seqId := Jobs[jobId].SequenceId; c.jobsMux.RUnlock(); c.triesMux.Lock()
\* is called
IncrementSequenceTriesStart(p) ==
    /\ At(p, "ist_start")
    /\ jobsMux' = RUnlock(jobsMux, p)
    /\ triesMux' = Request(triesMux, p)
    /\ Goto(p, "ist_lock",
            [frame[p] EXCEPT !.seqId = MapGet(jobs, frame[p].jobId, ZeroJob).SequenceId])
    /\ ret' = NoRet
    /\ UNCHANGED <<jobs, sequenceTries, panicked, finishedJobs, chainState,
                   sjc, lockConst>>

\* c.triesMux.Lock() returns; cur := int(c.sequenceTries[seqId])
IncrementSequenceTriesLock(p) ==
    /\ At(p, "ist_lock")
    /\ CanLock(triesMux)
    /\ triesMux' = Lock(triesMux, p)
    /\ Goto(p, "ist_store",
            [frame[p] EXCEPT !.cur = ToInt(MapGet(sequenceTries, frame[p].seqId, 0))])
    /\ ret' = NoRet
    /\ UNCHANGED <<jobs, sequenceTries, panicked, jobsMux, finishedJobs,
                   chainState, sjc, lockConst>>

\* c.sequenceTries[seqId] = uint(cur + delta); c.triesMux.Unlock()
IncrementSequenceTriesStore(p) ==
    /\ At(p, "ist_store")
    /\ sequenceTries' =
            MapPut(sequenceTries, frame[p].seqId,
                   ToUint(frame[p].cur + frame[p].delta))
    /\ triesMux' = Unlock(triesMux)
    /\ Goto(p, "idle", NoFrame)
    /\ ret' = Ret("IncrementSequenceTries", frame[p].jobId, FALSE, FALSE, FALSE)
    /\ UNCHANGED <<jobs, panicked, jobsMux, finishedJobs, chainState, sjc,
                   lockConst>>

\* CanRetrySequence: c.SequenceStartJob(jobId) read-locks jobsMux
CanRetrySequenceRLock(p, jobId) ==
    /\ Begin(p)
    /\ CanRLock(jobsMux)
    /\ jobsMux' = RLock(jobsMux, p)
    /\ Goto(p, "crs_start", Local(jobId))
    /\ ret' = NoRet
    /\ UNCHANGED <<jobs, sequenceTries, panicked, triesMux, finishedJobs,
                   chainState, sjc, lockConst>>

\* SequenceStartJob returns the start job with its deferred RUnlock
CanRetrySequenceStart(p) ==
    /\ At(p, "crs_start")
    /\ jobsMux' = RUnlock(jobsMux, p)
    /\ Goto(p, "crs_rlock",
            [frame[p] EXCEPT !.job = SequenceStartJob(frame[p].jobId)])
    /\ ret' = NoRet
    /\ UNCHANGED <<jobs, sequenceTries, panicked, triesMux, finishedJobs,
                   chainState, sjc, lockConst>>

\* c.triesMux.RLock()
CanRetrySequenceTriesRLock(p) ==
    /\ At(p, "crs_rlock")
    /\ CanRLock(triesMux)
    /\ triesMux' = RLock(triesMux, p)
    /\ Goto(p, "crs_read", frame[p])
    /\ ret' = NoRet
    /\ UNCHANGED <<jobs, sequenceTries, panicked, jobsMux, finishedJobs,
                   chainState, sjc, lockConst>>

\* return c.sequenceTries[sequenceStartJob.Id] <= sequenceStartJob.SequenceRetry
\* and the deferred c.triesMux.RUnlock()
CanRetrySequenceRead(p) ==
    /\ At(p, "crs_read")
    /\ triesMux' = RUnlock(triesMux, p)
    /\ Goto(p, "idle", NoFrame)
    /\ ret' = Ret("CanRetrySequence", frame[p].jobId,
                  MapGet(sequenceTries, frame[p].job.Id, 0)
                      <= frame[p].job.SequenceRetry,
                  FALSE, FALSE)
    /\ UNCHANGED <<jobs, sequenceTries, panicked, jobsMux, finishedJobs,
                   chainState, sjc, lockConst>>

\* SequenceTries: c.jobsMux.RLock()
SequenceTriesRLock(p, jobId) ==
    /\ Begin(p)
    /\ CanRLock(jobsMux)
    /\ jobsMux' = RLock(jobsMux, p)
    /\ Goto(p, "st_start", Local(jobId))
    /\ ret' = NoRet
    /\ UNCHANGED <<jobs, sequenceTries, panicked, triesMux, finishedJobs,
                   chainState, sjc, lockConst>>

\* seqId := Jobs[jobId].SequenceId; c.jobsMux.RUnlock()
SequenceTriesStart(p) ==
    /\ At(p, "st_start")
    /\ jobsMux' = RUnlock(jobsMux, p)
    /\ Goto(p, "st_rlock",
            [frame[p] EXCEPT !.seqId = MapGet(jobs, frame[p].jobId, ZeroJob).SequenceId])
    /\ ret' = NoRet
    /\ UNCHANGED <<jobs, sequenceTries, panicked, triesMux, finishedJobs,
                   chainState, sjc, lockConst>>

\* c.triesMux.RLock()
SequenceTriesTriesRLock(p) ==
    /\ At(p, "st_rlock")
    /\ CanRLock(triesMux)
    /\ triesMux' = RLock(triesMux, p)
    /\ Goto(p, "st_read", frame[p])
    /\ ret' = NoRet
    /\ UNCHANGED <<jobs, sequenceTries, panicked, jobsMux, finishedJobs,
                   chainState, sjc, lockConst>>

\* return c.sequenceTries[seqId] and the deferred c.triesMux.RUnlock()
SequenceTriesRead(p) ==
    /\ At(p, "st_read")
    /\ triesMux' = RUnlock(triesMux, p)
    /\ Goto(p, "idle", NoFrame)
    /\ ret' = RetTries("SequenceTries", frame[p].jobId,
                       MapGet(sequenceTries, frame[p].seqId, 0), 0)
    /\ UNCHANGED <<jobs, sequenceTries, panicked, jobsMux, finishedJobs,
                   chainState, sjc, lockConst>>

\* ToSuspended: c.triesMux.RLock()
ToSuspendedRLock(p) ==
    /\ Begin(p)
    /\ CanRLock(triesMux)
    /\ triesMux' = RLock(triesMux, p)
    /\ Goto(p, "ts_copy", Local(""))
    /\ ret' = NoRet
    /\ UNCHANGED <<jobs, sequenceTries, panicked, jobsMux, finishedJobs,
                   chainState, sjc, lockConst>>

\* the three maps are put in the struct; c.triesMux.RUnlock()
ToSuspendedCopy(p) ==
    /\ At(p, "ts_copy")
    /\ triesMux' = RUnlock(triesMux, p)
    /\ Goto(p, "ts_reqid",
            [frame[p] EXCEPT !.acc = <<sequenceTries, totalJobTries,
                                       latestRunJobTries>>])
    /\ ret' = NoRet
    /\ UNCHANGED <<jobs, sequenceTries, panicked, jobsMux, finishedJobs,
                   chainState, sjc, lockConst>>

\* RequestId: c.RequestId(), and the struct is returned
ToSuspendedReturn(p) ==
    /\ At(p, "ts_reqid")
    /\ sjc' = [taken |-> TRUE,
               RequestId |-> requestId,
               JobChain |-> "jobChain",
               SequenceTries |-> "sequenceTries",
               TotalJobTries |-> "totalJobTries",
               LatestRunJobTries |-> "latestRunJobTries",
               wasSequenceTries |-> frame[p].acc[1],
               wasTotalJobTries |-> frame[p].acc[2],
               wasLatestRunJobTries |-> frame[p].acc[3]]
    /\ Goto(p, "idle", NoFrame)
    /\ ret' = Ret("ToSuspended", "", FALSE, FALSE, FALSE)
    /\ UNCHANGED <<jobs, sequenceTries, panicked, jobsMux, triesMux,
                   finishedJobs, chainState, lockConst>>

\* IsRunnable: c.jobsMux.RLock()
IsRunnableRLock(p, jobId) ==
    /\ Begin(p)
    /\ CanRLock(jobsMux)
    /\ jobsMux' = RLock(jobsMux, p)
    /\ Goto(p, "ir_read", Local(jobId))
    /\ ret' = NoRet
    /\ UNCHANGED <<jobs, sequenceTries, panicked, triesMux, finishedJobs,
                   chainState, sjc, lockConst>>

\* return c.isRunnable(jobId) and the deferred c.jobsMux.RUnlock()
IsRunnableRead(p) ==
    /\ At(p, "ir_read")
    /\ jobsMux' = RUnlock(jobsMux, p)
    /\ Goto(p, "idle", NoFrame)
    /\ ret' = Ret("IsRunnable", frame[p].jobId, isRunnable(frame[p].jobId),
                  FALSE, FALSE)
    /\ UNCHANGED <<jobs, sequenceTries, panicked, triesMux, finishedJobs,
                   chainState, sjc, lockConst>>

\* FinishedJobs: c.jobsMux.RLock()
FinishedJobsRLock(p) ==
    /\ Begin(p)
    /\ CanRLock(jobsMux)
    /\ jobsMux' = RLock(jobsMux, p)
    /\ Goto(p, "fj_read", Local(""))
    /\ ret' = NoRet
    /\ UNCHANGED <<jobs, sequenceTries, panicked, triesMux, finishedJobs,
                   chainState, sjc, lockConst>>

\* return c.jobChain.FinishedJobs and the deferred c.jobsMux.RUnlock()
FinishedJobsRead(p) ==
    /\ At(p, "fj_read")
    /\ jobsMux' = RUnlock(jobsMux, p)
    /\ Goto(p, "idle", NoFrame)
    /\ ret' = RetTries("FinishedJobs", "", finishedJobs, 0)
    /\ UNCHANGED <<jobs, sequenceTries, panicked, triesMux, finishedJobs,
                   chainState, sjc, lockConst>>

\* IncrementFinishedJobs: c.jobsMux.Lock() is called
IncrementFinishedJobsCall(p, delta) ==
    /\ Begin(p)
    /\ jobsMux' = Request(jobsMux, p)
    /\ Goto(p, "ifj_lock", [Local("") EXCEPT !.delta = delta])
    /\ ret' = NoRet
    /\ UNCHANGED <<jobs, sequenceTries, panicked, triesMux, finishedJobs,
                   chainState, sjc, lockConst>>

\* c.jobsMux.Lock() returns; cur := int(c.jobChain.FinishedJobs)
IncrementFinishedJobsLock(p) ==
    /\ At(p, "ifj_lock")
    /\ CanLock(jobsMux)
    /\ jobsMux' = Lock(jobsMux, p)
    /\ Goto(p, "ifj_store", [frame[p] EXCEPT !.cur = ToInt(finishedJobs)])
    /\ ret' = NoRet
    /\ UNCHANGED <<jobs, sequenceTries, panicked, triesMux, finishedJobs,
                   chainState, sjc, lockConst>>

\* panic if cur + delta < 0, else store; the deferred c.jobsMux.Unlock()
\* runs in both cases
IncrementFinishedJobsStore(p) ==
    /\ At(p, "ifj_store")
    /\ jobsMux' = Unlock(jobsMux)
    /\ IF ToInt(frame[p].cur + frame[p].delta) < 0
       THEN /\ panicked' = TRUE
            /\ Goto(p, "panic", frame[p])
            /\ ret' = Ret("IncrementFinishedJobs panic", "", FALSE, FALSE, FALSE)
            /\ UNCHANGED finishedJobs
       ELSE /\ finishedJobs' = ToUint(ToInt(frame[p].cur + frame[p].delta))
            /\ Goto(p, "idle", NoFrame)
            /\ ret' = Ret("IncrementFinishedJobs", "", FALSE, FALSE, FALSE)
            /\ UNCHANGED panicked
    /\ UNCHANGED <<jobs, sequenceTries, triesMux, chainState, sjc, lockConst>>

\* SetState is called; it takes no lock
SetStateCall(p, state) ==
    /\ Begin(p)
    /\ Goto(p, "ss_store", [Local("") EXCEPT !.state = state])
    /\ ret' = NoRet
    /\ UNCHANGED <<jobs, sequenceTries, panicked, jobsMux, triesMux,
                   finishedJobs, chainState, sjc, lockConst>>

\* c.jobChain.State = state
SetStateStore(p) ==
    /\ At(p, "ss_store")
    /\ chainState' = frame[p].state
    /\ Goto(p, "idle", NoFrame)
    /\ ret' = Ret("SetState", "", FALSE, FALSE, FALSE)
    /\ UNCHANGED <<jobs, sequenceTries, panicked, jobsMux, triesMux,
                   finishedJobs, sjc, lockConst>>

\* State is called; it takes no lock
StateCall(p) ==
    /\ Begin(p)
    /\ Goto(p, "s_load", Local(""))
    /\ ret' = NoRet
    /\ UNCHANGED <<jobs, sequenceTries, panicked, jobsMux, triesMux,
                   finishedJobs, chainState, sjc, lockConst>>

\* return c.jobChain.State
StateLoad(p) ==
    /\ At(p, "s_load")
    /\ Goto(p, "idle", NoFrame)
    /\ ret' = Ret("State", chainState, FALSE, FALSE, FALSE)
    /\ UNCHANGED <<jobs, sequenceTries, panicked, jobsMux, triesMux,
                   finishedJobs, chainState, sjc, lockConst>>

\* a range over Jobs that holds the read lock while it iterates
rangeLock_Held(p) == RLock(jobsMux, p)

\* jobsMux as the range over Jobs of RunnableJobs leaves it: not locked
rangeLock(p) == jobsMux

\* RunnableJobs: the range over c.jobChain.Jobs begins; it will visit the
\* jobs in the order given
RunnableJobsCall(p, order) ==
    /\ Begin(p)
    /\ jobsMux' = rangeLock(p)
    /\ Goto(p, "rj_next", [Local("") EXCEPT !.todo = order])
    /\ ret' = NoRet
    /\ UNCHANGED <<jobs, sequenceTries, panicked, triesMux, finishedJobs,
                   chainState, sjc, lockConst>>

\* a goroutine is inside SetJobState's store of the Jobs map
MapWriter(p) == \E q \in Procs \ {p} : pc[q] = "sjs_store"

\* the range reads the next job from the map, or ends and the list is
\* returned. With a writer inside the map, the unlocked read is a data race:
\* it goes through, or the runtime stops the process (fatal error:
\* concurrent map iteration and map write).
RunnableJobsNext(p) ==
    /\ At(p, "rj_next")
    /\ \/ /\ IF frame[p].todo = <<>>
             THEN /\ Goto(p, "idle", NoFrame)
                  /\ ret' = RetJobs("RunnableJobs", frame[p].acc)
             ELSE /\ Goto(p, "rj_rlock",
                          [frame[p] EXCEPT !.job = jobs[Head(frame[p].todo)],
                                           !.todo = Tail(@)])
                  /\ ret' = NoRet
          /\ UNCHANGED panicked
       \/ /\ MapWriter(p)
          /\ panicked' = TRUE
          /\ Goto(p, "panic", frame[p])
          /\ ret' = Ret("RunnableJobs fatal error", "", FALSE, FALSE, FALSE)
    /\ UNCHANGED <<jobs, sequenceTries, jobsMux, triesMux, finishedJobs,
                   chainState, sjc, lockConst>>

\* c.IsRunnable(job.Id): c.jobsMux.RLock()
RunnableJobsRLock(p) ==
    /\ At(p, "rj_rlock")
    /\ CanRLock(jobsMux)
    /\ jobsMux' = RLock(jobsMux, p)
    /\ Goto(p, "rj_read", frame[p])
    /\ ret' = NoRet
    /\ UNCHANGED <<jobs, sequenceTries, panicked, triesMux, finishedJobs,
                   chainState, sjc, lockConst>>

\* IsRunnable returns with its deferred RUnlock; a runnable job (the copy
\* the range made) is appended
RunnableJobsRead(p) ==
    /\ At(p, "rj_read")
    /\ jobsMux' = RUnlock(jobsMux, p)
    /\ Goto(p, "rj_next",
            [frame[p] EXCEPT !.acc = IF isRunnable(frame[p].job.Id)
                                         THEN Append(@, frame[p].job) ELSE @])
    /\ ret' = NoRet
    /\ UNCHANGED <<jobs, sequenceTries, panicked, triesMux, finishedJobs,
                   chainState, sjc, lockConst>>

----------------------------------------------------------------------------
(* SpecLocks: goroutines calling the methods of a two-job chain (1 -> 2,   *)
(* one sequence started by job1 with no retry) in any interleaving, up to  *)
(* MaxCalls calls begun                                                    *)

LockJobs(state1) ==
    [id \in {"job1", "job2"} |->
        Job(id, IF id = "job1" THEN state1 ELSE STATE_PENDING, "job1", 0, "nil")]

LockAdjacencyList == [id \in {"job1"} |-> <<"job2">>]

\* the states given to SetJobState: two valid ones and one IsDoneRunning
\* does not know
LockStates == {STATE_FAIL, STATE_COMPLETE, STATE_SUSPENDED}

InitLocks ==
    /\ \E s \in {STATE_COMPLETE, STATE_FAIL} : jobs = NewChain(LockJobs(s))
    /\ adjacencyList = LockAdjacencyList
    /\ sequenceTries = EmptyMap
    /\ latestRunJobTries = EmptyMap
    /\ totalJobTries = EmptyMap
    /\ panicked = FALSE
    /\ ret = NoRet
    /\ NoProtocol
    /\ IdleProcs
    /\ FreshJobChain

\* the steps of goroutine p inside a method
ProcStep(p) ==
    \/ SetJobStateLock(p)
    \/ SetJobStateStore(p)
    \/ IsDoneRunningScan(p)
    \/ IsDoneRunningTriesRLock(p)
    \/ IsDoneRunningTriesRead(p)
    \/ IncrementSequenceTriesStart(p)
    \/ IncrementSequenceTriesLock(p)
    \/ IncrementSequenceTriesStore(p)
    \/ CanRetrySequenceStart(p)
    \/ CanRetrySequenceTriesRLock(p)
    \/ CanRetrySequenceRead(p)
    \/ SequenceTriesStart(p)
    \/ SequenceTriesTriesRLock(p)
    \/ SequenceTriesRead(p)
    \/ ToSuspendedCopy(p)
    \/ ToSuspendedReturn(p)
    \/ IsRunnableRead(p)
    \/ FinishedJobsRead(p)
    \/ IncrementFinishedJobsLock(p)
    \/ IncrementFinishedJobsStore(p)
    \/ SetStateStore(p)
    \/ StateLoad(p)
    \/ RunnableJobsNext(p)
    \/ RunnableJobsRLock(p)
    \/ RunnableJobsRead(p)
    \/ IncrementJobTriesTotal(p)
    \/ IncrementJobTriesLatest(p)

\* a goroutine begins a call
ProcCall(p) ==
    \/ \E s \in LockStates : SetJobStateCall(p, "job2", s)
    \/ \E o \in Orders : IsDoneRunningRLock(p, o)
    \/ IncrementSequenceTriesRLock(p, "job2", 1)
    \/ CanRetrySequenceRLock(p, "job2")
    \/ SequenceTriesRLock(p, "job2")
    \/ ToSuspendedRLock(p)
    \/ IsRunnableRLock(p, "job2")
    \/ FinishedJobsRLock(p)
    \/ \E d \in {-1, 1} : IncrementFinishedJobsCall(p, d)
    \/ SetStateCall(p, STATE_RUNNING)
    \/ StateCall(p)
    \/ \E o \in Orders : RunnableJobsCall(p, o)
    \/ /\ calls < MaxCalls
       /\ IncrementJobTriesLock(p, "job1", -1)

NextLocks == \E p \in Procs : ProcCall(p) \/ ProcStep(p)

SpecLocks == InitLocks /\ [][NextLocks]_vars

----------------------------------------------------------------------------
(* SpecLive: the same goroutines calling one method of each locking        *)
(* pattern: write jobsMux (SetJobState), read jobsMux (IsRunnable inside   *)
(* RunnableJobs), read jobsMux then write triesMux                         *)
(* (IncrementSequenceTries), read jobsMux then read triesMux               *)
(* (CanRetrySequence), read triesMux under jobsMux (IsDoneRunning), read   *)
(* triesMux (ToSuspended), write triesMux with a panic (IncrementJobTries) *)

LiveStep(p) ==
    \/ SetJobStateLock(p)
    \/ SetJobStateStore(p)
    \/ IsDoneRunningScan(p)
    \/ IsDoneRunningTriesRLock(p)
    \/ IsDoneRunningTriesRead(p)
    \/ IncrementSequenceTriesStart(p)
    \/ IncrementSequenceTriesLock(p)
    \/ IncrementSequenceTriesStore(p)
    \/ CanRetrySequenceStart(p)
    \/ CanRetrySequenceTriesRLock(p)
    \/ CanRetrySequenceRead(p)
    \/ ToSuspendedCopy(p)
    \/ ToSuspendedReturn(p)
    \/ RunnableJobsNext(p)
    \/ RunnableJobsRLock(p)
    \/ RunnableJobsRead(p)
    \/ IncrementJobTriesTotal(p)
    \/ IncrementJobTriesLatest(p)

LiveCall(p) ==
    \/ SetJobStateCall(p, "job2", STATE_FAIL)
    \/ \E o \in Orders : IsDoneRunningRLock(p, o)
    \/ IncrementSequenceTriesRLock(p, "job2", 1)
    \/ CanRetrySequenceRLock(p, "job2")
    \/ ToSuspendedRLock(p)
    \/ RunnableJobsCall(p, <<"job1", "job2">>)
    \/ /\ calls < MaxCalls
       /\ IncrementJobTriesLock(p, "job1", -1)

NextLive == \E p \in Procs : LiveCall(p) \/ LiveStep(p)

\* the Go scheduler runs every goroutine that can take a step
SpecLive ==
    InitLocks /\ [][NextLive]_vars /\ \A p \in Procs : WF_vars(LiveStep(p))

----------------------------------------------------------------------------
(* SpecTries: goroutines that increment and read the tries of two jobs of  *)
(* a fresh chain, in any interleaving                                      *)

TriesJobIds == {"job1", "job2"}
\* the arguments given to IncrementJobTries
JobDeltas == {0 - MaxInt, -1, 0, 1, MaxInt}

NextTries ==
    \/ \E p \in Procs, id \in TriesJobIds, d \in JobDeltas :
        IncrementJobTriesLock(p, id, d)
    \/ \E p \in Procs : IncrementJobTriesTotal(p)
    \/ \E p \in Procs : IncrementJobTriesLatest(p)
    \/ \E p \in Procs : IncrementJobTriesUnlock(p)
    \/ \E p \in Procs, id \in TriesJobIds : JobTriesRLock(p, id)
    \/ \E p \in Procs : JobTriesReturn(p)

InitTries ==
    /\ Init
    /\ adjacencyList = TestAdjacencyList

SpecTries == InitTries /\ [][NextTries]_vars

----------------------------------------------------------------------------
(* Properties of the runnability predicate and the completion oracle,      *)
(* stated on the job states and counters themselves (Spec)                 *)

StateOf(id) == jobs[id].State

\* the jobs that list id in their adjacency list
Predecessors(id) ==
    {p \in DOMAIN adjacencyList :
        \E i \in DOMAIN adjacencyList[p] : adjacencyList[p][i] = id}

PendingAfterComplete(id) ==
    /\ StateOf(id) = "PENDING"
    /\ \A p \in Predecessors(id) : StateOf(p) = "COMPLETE"

\* tries of the job's sequence against the retry budget of its start job
SequenceHasRetries(id) ==
    LET seq == jobs[id].SequenceId IN
    (IF seq \in DOMAIN sequenceTries THEN sequenceTries[seq] ELSE 0)
        <= jobs[seq].SequenceRetry

AllValid == \A id \in JobIds : StateOf(id) \in ValidStates
AllComplete == \A id \in JobIds : StateOf(id) = "COMPLETE"
Failed(id) == StateOf(id) \in {"FAIL", "UNKNOWN"}

Returned(done, complete) ==
    ret.op = "IsDoneRunning" /\ ret.done = done /\ ret.complete = complete
CalledIsDoneRunning == ret.op \in {"IsDoneRunning", "IsDoneRunning panic"}

C2_CompleteIffAllComplete ==
    CalledIsDoneRunning =>
        /\ AllComplete => Returned(TRUE, TRUE)
        /\ ~AllComplete /\ ret.op = "IsDoneRunning" => ~ret.complete

C2_Witness ==
    \/ AllComplete /\ Returned(TRUE, TRUE)
    \/ Returned(TRUE, FALSE) /\ \E id \in JobIds : StateOf(id) = "STOPPED"

\* C3: with valid job states, IsDoneRunning returns done = true iff no job
\* is RUNNING, no PENDING job is runnable and no FAIL or UNKNOWN job is in a
\* sequence that can be retried; otherwise it returns (false, false).
ChainDone ==
    /\ \A id \in JobIds : StateOf(id) # "RUNNING"
    /\ \A id \in JobIds : ~PendingAfterComplete(id)
    /\ \A id \in JobIds : Failed(id) => ~SequenceHasRetries(id)

C3_DoneIff ==
    CalledIsDoneRunning /\ AllValid =>
        /\ ret.op = "IsDoneRunning"
        /\ ret.done <=> ChainDone
        /\ ~ChainDone => Returned(FALSE, FALSE)

C3_Witness ==
    /\ Returned(TRUE, FALSE) /\ AllValid
    /\ \E id \in JobIds : Failed(id)
    /\ \E id \in JobIds : StateOf(id) = "PENDING"

\* C4: if any job is RUNNING and all job states are valid, IsDoneRunning
\* returns (false, false) whatever the states of the other jobs.
C4_RunningNotDone ==
    /\ CalledIsDoneRunning
    /\ AllValid
    /\ \E id \in JobIds : StateOf(id) = "RUNNING"
    => Returned(FALSE, FALSE)

C4_Witness ==
    /\ Returned(FALSE, FALSE)
    /\ StateOf("job4") = "RUNNING"
    /\ StateOf("job3") = "STOPPED"
    /\ StateOf("job2") = "FAIL" /\ ~SequenceHasRetries("job2")
    /\ StateOf("job1") = "COMPLETE"

\* C5: a STOPPED job neither keeps the chain running nor ends it: when every
\* job is COMPLETE, STOPPED or PENDING behind a job that is not COMPLETE, and
\* not all are COMPLETE, IsDoneRunning returns (true, false); when a PENDING
\* job has all its predecessors COMPLETE it returns (false, false) although
\* another job is STOPPED. For 1 -> {2,3}, 2 -> 4: (C, STOPPED, C, PENDING)
\* gives (true, false) and job4 not runnable, (C, C, STOPPED, PENDING) gives
\* (false, false) and job4 runnable.
Blocked(id) ==
    StateOf(id) = "PENDING" /\ \E p \in Predecessors(id) : StateOf(p) # "COMPLETE"

States4(s1, s2, s3, s4) ==
    /\ StateOf("job1") = s1 /\ StateOf("job2") = s2
    /\ StateOf("job3") = s3 /\ StateOf("job4") = s4

C5_StoppedJobs ==
    /\ /\ CalledIsDoneRunning
       /\ \A id \in JobIds : StateOf(id) \in {"COMPLETE", "STOPPED"} \/ Blocked(id)
       /\ ~AllComplete
       => Returned(TRUE, FALSE)
    /\ /\ CalledIsDoneRunning
       /\ \A id \in JobIds : StateOf(id) \in {"COMPLETE", "STOPPED", "PENDING"}
       /\ \E id \in JobIds : StateOf(id) = "STOPPED"
       /\ \E id \in JobIds : PendingAfterComplete(id)
       => Returned(FALSE, FALSE)
    /\ adjacencyList = TestAdjacencyList =>
        /\ States4("COMPLETE", "STOPPED", "COMPLETE", "PENDING") =>
            /\ CalledIsDoneRunning => Returned(TRUE, FALSE)
            /\ ret.op = "IsRunnable" /\ ret.id = "job4" => ~ret.val
        /\ States4("COMPLETE", "COMPLETE", "STOPPED", "PENDING") =>
            /\ CalledIsDoneRunning => Returned(FALSE, FALSE)
            /\ ret.op = "IsRunnable" /\ ret.id = "job4" => ret.val

C5_Witness ==
    /\ adjacencyList = TestAdjacencyList
    /\ States4("COMPLETE", "STOPPED", "COMPLETE", "PENDING")
    /\ Returned(TRUE, FALSE)

\* C6: with a job in FAIL or UNKNOWN and no job RUNNING or runnable,
\* IsDoneRunning returns (false, false) if the sequence of some such job can
\* still be retried (sequence tries <= SequenceRetry of the start job) and
\* (true, false) if all of them are exhausted; FAIL and UNKNOWN are treated
\* alike. SequenceRetry 2 with 1 try gives (false, false), with 3 tries
\* (true, false).
FailedNothingToRun ==
    /\ AllValid
    /\ \E id \in JobIds : Failed(id)
    /\ \A id \in JobIds : StateOf(id) # "RUNNING" /\ ~PendingAfterComplete(id)

TriesOfJob1 ==
    IF "job1" \in DOMAIN sequenceTries THEN sequenceTries["job1"] ELSE 0

C6_FailedRetry ==
    CalledIsDoneRunning /\ FailedNothingToRun =>
        /\ (\E id \in JobIds : Failed(id) /\ SequenceHasRetries(id))
            => Returned(FALSE, FALSE)
        /\ (\A id \in JobIds : Failed(id) => ~SequenceHasRetries(id))
            => Returned(TRUE, FALSE)
        /\ jobs["job1"].SequenceRetry = 2 /\ TriesOfJob1 = 1 => Returned(FALSE, FALSE)
        /\ jobs["job1"].SequenceRetry = 2 /\ TriesOfJob1 = 3 => Returned(TRUE, FALSE)

C6_Witness ==
    /\ FailedNothingToRun
    /\ \E id \in JobIds : StateOf(id) = "UNKNOWN"
    /\ \A id \in JobIds : StateOf(id) # "FAIL"
    /\ TriesOfJob1 = 3
    /\ Returned(TRUE, FALSE)

----------------------------------------------------------------------------
(* Properties of the sequence retry bookkeeping (SpecSeq, SpecRetry)       *)

\* C7: CanRetrySequence(id) is true exactly when the tries of the sequence
\* of id are at most the SequenceRetry of its sequence-start job; it is the
\* same for every job of a sequence, and canRetrySequence computes the same.
C7_CanRetrySequence ==
    /\ ret.op = "CanRetrySequence" => (ret.val <=> SequenceHasRetries(ret.id))
    /\ \A i, j \in JobIds :
        jobs[i].SequenceId = jobs[j].SequenceId
            => (CanRetrySequence(i) <=> CanRetrySequence(j))
    /\ \A i \in JobIds :
        /\ CanRetrySequence(i) <=> SequenceHasRetries(i)
        /\ canRetrySequence(i) <=> CanRetrySequence(i)

C7_Witness ==
    /\ ret.op = "CanRetrySequence" /\ ret.id = "job2" /\ ret.val
    /\ jobs["job1"].SequenceRetry = 2 /\ TriesOfJob1 = 2
    /\ ~SequenceHasRetries("job4")

\* C8: with SequenceRetry = R, tries starting at 0, one
\* IncrementSequenceTries(+1) per attempt and a new attempt after a failure
\* only if CanRetrySequence is true, a sequence is attempted at most R+1
\* times, and exactly R+1 times when every attempt fails.
C8_AtMostRetryPlusOne ==
    \A seq \in DOMAIN attempts :
        /\ attempts[seq] <= jobs[seq].SequenceRetry + 1
        /\ phase[seq] = "exhausted" => attempts[seq] = jobs[seq].SequenceRetry + 1
        /\ phase[seq] = "retry" => attempts[seq] <= jobs[seq].SequenceRetry

C8_Witness ==
    /\ jobs["job1"].SequenceRetry = 2
    /\ phase["job1"] = "exhausted"
    /\ attempts["job1"] = 3
    /\ phase["job3"] = "succeeded"

----------------------------------------------------------------------------
(* Properties of the sequence try counter (SpecSeq)                        *)

SameSequence(id1, id2) == jobs[id1].SequenceId = jobs[id2].SequenceId

\* C11: IncrementSequenceTries(id, d) adds d to the one counter of id's
\* sequence: every job of that sequence then reads the previous value plus d,
\* the counters of the other sequences, both job-try maps, the job states and
\* FinishedJobs are unchanged, and a chain with no counter stored reads 0.
C11_IncrementSequenceTriesEffect ==
    [][/\ \A id \in JobIds, d \in IntRange :
            IncrementSequenceTries(id, d) =>
                /\ \A id2 \in JobIds :
                      IF SameSequence(id, id2)
                      THEN SequenceTries(id2)' = SequenceTries(id2) + d
                      ELSE SequenceTries(id2)' = SequenceTries(id2)
                /\ UNCHANGED <<latestRunJobTries, totalJobTries, jobs, finishedJobs>>
       /\ sequenceTries = EmptyMap => \A id \in JobIds : SequenceTries(id) = 0
      ]_vars

\* C12: IncrementSequenceTries(id, d) with d < 0 and sequenceTries[seqId] + d < 0
\* is fatal and stores nothing into sequenceTries.
C12_NegativeSequenceTriesFatal ==
    [][\A id \in JobIds, d \in IntRange :
          (/\ IncrementSequenceTries(id, d)
           /\ d < 0
           /\ SequenceTries(id) + d < 0)
          => (panicked' /\ sequenceTries' = sequenceTries)
      ]_vars

----------------------------------------------------------------------------
(* Properties of the job try counters (SpecTries)                          *)

LatestOf(id) == IF id \in DOMAIN latestRunJobTries THEN latestRunJobTries[id] ELSE 0
TotalOf(id) == IF id \in DOMAIN totalJobTries THEN totalJobTries[id] ELSE 0
PreLatestOf(p, id) ==
    IF id \in DOMAIN frame[p].preLatest THEN frame[p].preLatest[id] ELSE 0
PreTotalOf(p, id) ==
    IF id \in DOMAIN frame[p].preTotal THEN frame[p].preTotal[id] ELSE 0

\* C9: an IncrementJobTries(id, d) that is not fatal changes
\* latestRunJobTries[id] by exactly d, adds d to totalJobTries[id] when d > 0
\* and leaves it unchanged when d <= 0, so that totalJobTries[id] never
\* decreases; the counters of the other jobs, sequenceTries and the job
\* states are unchanged. Stated where the call has done its stores and is
\* about to unlock.
C9_IncrementJobTriesEffect ==
    \A p \in Procs : pc[p] = "ijt_unlock" =>
        LET id == frame[p].jobId
            d == frame[p].delta
        IN /\ LatestOf(id) = PreLatestOf(p, id) + d
           /\ TotalOf(id) = PreTotalOf(p, id) + (IF d > 0 THEN d ELSE 0)
           /\ TotalOf(id) >= PreTotalOf(p, id)
           /\ \A other \in JobIds \ {id} :
                /\ LatestOf(other) = PreLatestOf(p, other)
                /\ TotalOf(other) = PreTotalOf(p, other)
           /\ sequenceTries = EmptyMap
           /\ jobs = NewChain(TestJobs)

\* C10: from empty try maps, after any interleaving of IncrementJobTries
\* calls latestRunJobTries[id] <= totalJobTries[id] for every job, and every
\* JobTries(id) returns (latest, total) with latest <= total. Stated where no
\* IncrementJobTries is between its two stores.
C10_LatestAtMostTotal ==
    /\ triesMux.writer = 0 /\ ~panicked =>
        \A id \in JobIds : LatestOf(id) <= TotalOf(id)
    /\ ret.op = "JobTries" => ret.cur <= ret.total

\* C13: IncrementJobTries(id, d) with latestRunJobTries[id] + d < 0 is fatal:
\* it never gets past the check to its store, and when it panics neither
\* latestRunJobTries nor totalJobTries nor any other counter has been modified
\* since the call began.
C13_NegativeJobTriesFatal ==
    \A p \in Procs :
        LET id == frame[p].jobId
            negative == PreLatestOf(p, id) + frame[p].delta < 0
        IN /\ pc[p] = "ijt_unlock" => ~negative
           /\ (pc[p] \in {"ijt_latest", "panic"} /\ negative) =>
                /\ latestRunJobTries = frame[p].preLatest
                /\ totalJobTries = frame[p].preTotal
                /\ sequenceTries = EmptyMap
                /\ finishedJobs = 0

\* a goroutine has panicked in a decrement below zero of job2's counter while
\* job1 already has tries
C13_Witness ==
    \E p \in Procs :
        /\ pc[p] = "panic" /\ panicked
        /\ ret.op = "IncrementJobTries panic"
        /\ frame[p].jobId = "job2" /\ frame[p].delta = -1
        /\ PreLatestOf(p, "job2") = 0
        /\ LatestOf("job1") = 1 /\ TotalOf("job1") = 1

----------------------------------------------------------------------------
(* Properties of the finished-jobs counter (SpecFinished)                  *)

NumJobs == Cardinality(JobIds)

----------------------------------------------------------------------------
(* Properties of suspending and resuming (SpecResume, SpecRunnable)        *)

\* C16: the three maps in the result of ToSuspended keep the values the
\* counters had at the time of the call, whatever IncrementJobTries and
\* IncrementSequenceTries do to the chain afterwards.
C16_SuspendedIsSnapshot ==
    sjc.taken =>
        /\ Deref(sjc.SequenceTries) = sjc.wasSequenceTries
        /\ Deref(sjc.TotalJobTries) = sjc.wasTotalJobTries
        /\ Deref(sjc.LatestRunJobTries) = sjc.wasLatestRunJobTries

\* what every public accessor returns, for every job of the chain
Accessors ==
    [JobState |-> [id \in JobIds |-> JobState(id)],
     IsRunnable |-> [id \in JobIds |-> IsRunnable(id)],
     RunnableJobs |-> {RunnableJobs(o) : o \in Orders},
     IsDoneRunning |-> IsDoneRunningVerdicts,
     FailedJobs |-> FailedJobs,
     FinishedJobs |-> finishedJobs,
     JobTries |-> [id \in JobIds |-> JobTries(id)],
     SequenceTries |-> [id \in JobIds |-> SequenceTries(id)],
     CanRetrySequence |-> [id \in JobIds |-> CanRetrySequence(id)],
     State |-> chainState,
     RequestId |-> requestId]

C18_StoppedRunnableAfterResume ==
    (ret.op = "NewChain" /\ ret.val) =>
        \A id \in JobIds :
            (/\ StateOf(id) = "STOPPED"
             /\ \A p \in Predecessors(id) : StateOf(p) = "COMPLETE")
            => IsRunnable(id)

RetIds == {ret.jobs[i].Id : i \in DOMAIN ret.jobs}

C20_NewChainFrame ==
    [][(Construct \/ Resume) =>
          /\ DOMAIN jobs' = DOMAIN jobs
          /\ \A id \in DOMAIN jobs :
                /\ jobs'[id].State = jobs[id].State
                /\ jobs'[id].Data = "empty"
                /\ jobs[id].Data # "nil" => jobs'[id].Data = jobs[id].Data
                /\ [jobs'[id] EXCEPT !.Data = "nil"] = [jobs[id] EXCEPT !.Data = "nil"]
          /\ UNCHANGED <<finishedJobs, chainState, requestId, adjacencyList, triesVars>>
      ]_vars

\* the first Chain over the job chain of the test: every Data is now an
\* empty map, the states, FinishedJobs and the populated maps are as given
C20_Witness ==
    /\ ret.op = "NewChain" /\ ~ret.val
    /\ \A id \in JobIds : jobs[id].Data = "empty"
    /\ StateOf("job1") = "COMPLETE" /\ StateOf("job3") = "STOPPED"
    /\ StateOf("job5") = "PENDING"
    /\ finishedJobs = 2 /\ chainState = "RUNNING"
    /\ sequenceTries = ResumeSequenceTries
    /\ totalJobTries = ResumeTotalJobTries
    /\ latestRunJobTries = ResumeLatestRunJobTries

----------------------------------------------------------------------------
(* Properties of the state setters (SpecState)                             *)

\* C22: SetJobState(id, s) makes JobState(id) return s whatever the state
\* was, and changes nothing else: the other jobs, the job's other fields,
\* FinishedJobs, the chain State and the try counters. SetState(s) and
\* State() do the same for the chain State.
C22_SettersUnconditional ==
    [][/\ \A id \in JobIds, s \in AllStates :
            SetJobState(id, s) =>
                /\ JobState(id)' = s
                /\ DOMAIN jobs' = DOMAIN jobs
                /\ \A other \in JobIds \ {id} : jobs'[other] = jobs[other]
                /\ [jobs'[id] EXCEPT !.State = jobs[id].State] = jobs[id]
                /\ UNCHANGED <<finishedJobs, chainState, triesVars, adjacencyList>>
       /\ \A id \in JobIds : CallJobState(id) => ret'.state = jobs[id].State
       /\ \A s \in AllStates :
            SetState(s) =>
                /\ chainState' = s
                /\ UNCHANGED <<jobs, finishedJobs, triesVars, adjacencyList>>
       /\ CallState => ret'.id = chainState
      ]_vars

\* job2 was set to STOPPED after it had been COMPLETE or FAIL or anything
\* else, JobState reads it back, job1 is still RUNNING and the chain State
\* was set as well
C22_Witness ==
    /\ ret.op = "JobState" /\ ret.id = "job2" /\ ret.state = "STOPPED"
    /\ jobs["job1"].State = "RUNNING"
    /\ chainState = "SUSPENDED"

----------------------------------------------------------------------------
(* More properties of the sequence retry bookkeeping (SpecSeq)             *)

\* C23: CanRetrySequence never goes from false back to true by an
\* IncrementSequenceTries with a non-negative delta on a job of the same
\* sequence.
C23_CanRetryMonotone ==
    [][\A id \in JobIds, d \in 0..MaxInt :
          IncrementSequenceTries(id, d) =>
              \A id2 \in JobIds :
                  (SameSequence(id, id2) /\ ~CanRetrySequence(id2))
                      => ~CanRetrySequence(id2)'
      ]_vars

----------------------------------------------------------------------------
(* The completion oracle on a chain with an invalid job state (Spec)       *)

SomeInvalid == \E id \in JobIds : StateOf(id) \notin ValidStates

\* the scan can stop at this job with (false, false)
StopsScan(id) ==
    \/ StateOf(id) = "RUNNING"
    \/ PendingAfterComplete(id)
    \/ Failed(id) /\ SequenceHasRetries(id)

\* C24: on a chain with a job in an invalid state, IsDoneRunning panics
\* instead of returning a verdict.
C24_InvalidStateAlwaysFatal ==
    (CalledIsDoneRunning /\ SomeInvalid) => ret.op = "IsDoneRunning panic"

\* C24 (amended): on such a chain IsDoneRunning never returns done = true.
\* It panics when its scan reaches the invalid job; it returns (false, false)
\* without a panic only when some job is RUNNING, runnable or failed in a
\* retryable sequence, and it always panics when there is no such job.
C24_InvalidStateNeverDone ==
    (CalledIsDoneRunning /\ SomeInvalid) =>
        /\ ret.op = "IsDoneRunning" =>
                /\ Returned(FALSE, FALSE)
                /\ \E id \in JobIds : StopsScan(id)
        /\ (\A id \in JobIds : ~StopsScan(id)) => ret.op = "IsDoneRunning panic"

\* IsDoneRunning returned (false, false) although job2 is in an invalid
\* state: job1 is RUNNING and the scan met it first
C24_Witness ==
    /\ Returned(FALSE, FALSE)
    /\ StateOf("job2") = "SUSPENDED"
    /\ StateOf("job1") = "RUNNING"
    /\ \A id \in {"job3", "job4"} : StateOf(id) = "COMPLETE"

----------------------------------------------------------------------------
(* Properties of the graph queries (SpecGraph)                             *)

ListedIn(id) ==
    IF id \in DOMAIN adjacencyList
        THEN {adjacencyList[id][i] : i \in DOMAIN adjacencyList[id]}
        ELSE {}

RetJobSet == {ret.jobs[i] : i \in DOMAIN ret.jobs}

\* C25: NextJobs(id) returns exactly the jobs listed in AdjacencyList[id]
\* (none when id has no successors or is unknown), previousJobs(id) exactly
\* the jobs whose list contains id (none for roots), j is in NextJobs(i) iff
\* i is in previousJobs(j), and neither query changes any state.
C25_GraphDuals ==
    /\ [](/\ ret.op = "NextJobs" =>
                RetJobSet = {jobs[j] : j \in ListedIn(ret.id)}
          /\ ret.op = "previousJobs" =>
                /\ RetJobSet = {jobs[i] : i \in {k \in JobIds : ret.id \in ListedIn(k)}}
                /\ Len(ret.jobs) = Cardinality(RetJobSet)
          /\ \A i \in JobIds, j \in JobIds :
                (\E n \in DOMAIN NextJobs(i) : NextJobs(i)[n] = jobs[j])
                    <=> jobs[i] \in previousJobs(j))
    /\ [][UNCHANGED <<chainVars, triesVars, restVars, panicked>>]_vars

\* the diamond of the tests: previousJobs(job4) returned job2 and job3
C25_Witness ==
    /\ adjacencyList = DiamondAdjacencyList
    /\ ret.op = "previousJobs" /\ ret.id = "job4"
    /\ {ret.jobs[i].Id : i \in DOMAIN ret.jobs} = {"job2", "job3"}

----------------------------------------------------------------------------
(* Properties of Find.Prepare (SpecFind)                                   *)

HasEquals(arg) == \E i \in 1..Len(arg) : arg[i] = "="

\* what stands before the first "=" of an argument
NameOf(arg) ==
    LET k == CHOOSE i \in 1..Len(arg) :
                arg[i] = "=" /\ \A j \in 1..(i - 1) : arg[j] # "="
    IN SubSeq(arg, 1, k - 1)

KnownNames ==
    {<<n>> : n \in {"type", "states", "user", "since", "until", "limit", "offset"}}

BadArgs ==
    \/ \E i \in 1..Len(args) : ~HasEquals(args[i])
    \/ \E i \in 1..Len(args) : HasEquals(args[i]) /\ NameOf(args[i]) \notin KnownNames
    \/ \E i \in 1..Len(args), j \in 1..Len(args) :
          /\ i < j
          /\ HasEquals(args[i]) /\ HasEquals(args[j])
          /\ NameOf(args[i]) = NameOf(args[j])

Names(name) ==
    \E i \in 1..Len(args) : HasEquals(args[i]) /\ NameOf(args[i]) = <<name>>

\* C26: Prepare returns an error and leaves the request filter unset when
\* an argument has no "=", names an unknown filter or repeats a filter name;
\* when it succeeds with no limit and no offset filter given, the filter has
\* Limit 10 and Offset 0.
C26_PrepareRejects ==
    ret.op = "Prepare" =>
        /\ BadArgs => ret.err # "nil" /\ filter = ZeroFilter
        /\ (ret.err = "nil" /\ ~Names("limit") /\ ~Names("offset")) =>
                filter.Limit = 10 /\ filter.Offset = 0

\* a repeated limit filter was rejected and the filter is still unset
C26_Witness ==
    /\ ret.op = "Prepare"
    /\ args = << <<"limit", "=", "5">>, <<"limit", "=", "5">> >>
    /\ ret.err = "Filter specified multiple times"
    /\ filter = ZeroFilter

----------------------------------------------------------------------------
(* Properties of the two mutexes (SpecLocks, SpecLive)                     *)

Holds(p, mux) == mux.writer = p \/ p \in mux.readers

\* inside IsDoneRunning, between its RLock and its return
IdrPcs == {"idr_scan", "idr_rlock", "idr_read"}

\* isRunnable on the job states S
RunnableIn(S, id) ==
    /\ S[id].State = STATE_PENDING
    /\ \A k \in DOMAIN adjacencyList :
          (contains(adjacencyList[k], id) /\ k \in DOMAIN S)
              => S[k].State = STATE_COMPLETE

\* the verdict (done, complete) is one the job states S allow, whatever the
\* try counters are
StatesAllow(S, done, complete) ==
    IF done
    THEN /\ \A id \in DOMAIN S :
               S[id].State # STATE_RUNNING /\ ~RunnableIn(S, id)
         /\ complete <=> \A id \in DOMAIN S : S[id].State = STATE_COMPLETE
    ELSE /\ ~complete
         /\ \E id \in DOMAIN S :
               \/ S[id].State \in {STATE_RUNNING, STATE_FAIL, STATE_UNKNOWN}
               \/ RunnableIn(S, id)

\* C21: IsDoneRunning is atomic with respect to SetJobState: from its RLock
\* to its return the Jobs map is what it was at the RLock, and the verdict
\* it returns is a verdict of the job states of that one instant.
C21_IsDoneRunningAtomic ==
    /\ [](\A p \in Procs : pc[p] \in IdrPcs => jobs = frame[p].snap)
    /\ [][\A p \in Procs :
            (pc[p] \in IdrPcs /\ pc'[p] = "idle")
                => StatesAllow(frame[p].snap, ret'.done, ret'.complete)]_vars

\* a SetJobState waits for the lock while IsDoneRunning is in its scan
C21_Witness ==
    \E p \in Procs, q \in Procs :
        /\ pc[p] = "idr_read"
        /\ pc[q] = "sjs_lock"
        /\ frame[q].state # frame[p].snap[frame[q].jobId].State
        /\ jobs = frame[p].snap

\* C27 as stated: a goroutine holds at most one of jobsMux and triesMux.
C27_AtMostOneLock ==
    \A p \in Procs : ~(Holds(p, jobsMux) /\ Holds(p, triesMux))

\* the next step of p requests or acquires jobsMux
WantsJobsMux(p) == pc[p] \in {"idle", "sjs_lock", "ifj_lock", "rj_rlock"}
\* the next step of p requests or acquires triesMux
WantsTriesMux(p) ==
    pc[p] \in {"idle", "ist_start", "ist_lock", "idr_rlock", "crs_rlock", "st_rlock"}

\* C27 amended: jobsMux is never requested while triesMux is held, and both
\* are held only by IsDoneRunning, which read-locks triesMux (inside
\* canRetrySequence) under its read lock of jobsMux.
C27_LockOrder ==
    \A p \in Procs :
        /\ (Holds(p, triesMux) /\ WantsJobsMux(p)) => FALSE
        /\ (Holds(p, jobsMux) /\ Holds(p, triesMux)) =>
                /\ pc[p] = "idr_read"
                /\ p \in jobsMux.readers
                /\ p \in triesMux.readers

\* IsDoneRunning holds both read locks
C27_Witness ==
    \E p \in Procs :
        /\ pc[p] = "idr_read"
        /\ p \in jobsMux.readers
        /\ p \in triesMux.readers

\* the guarded object the next step of p reads or writes ("" for none)
Touches(p) ==
    CASE pc[p] \in {"idr_scan", "ir_read", "rj_next", "rj_read", "ist_start",
                    "crs_start", "st_start", "sjs_store"} -> "Jobs"
      [] pc[p] \in {"s_load", "ss_store"} -> "State"
      [] pc[p] \in {"fj_read", "ifj_store"} -> "FinishedJobs"
      [] OTHER -> ""
IsWrite(p) == pc[p] \in {"sjs_store", "ss_store", "ifj_store"}

\* C28: no access of Jobs, State or FinishedJobs without jobsMux is
\* concurrent with a write of the same object.
C28_NoUnlockedAccessDuringWrite ==
    \A p \in Procs, q \in Procs :
        (p # q /\ IsWrite(q) /\ Touches(p) = Touches(q)) => Holds(p, jobsMux)

\* C29: no goroutine requests or acquires a mutex it already holds; what
\* runs under jobsMux takes jobsMux no second time.
C29_NoNestedLock ==
    \A p \in Procs :
        /\ WantsJobsMux(p) => ~Holds(p, jobsMux)
        /\ WantsTriesMux(p) => ~Holds(p, triesMux)

\* IsDoneRunning is about to call canRetrySequence under its read lock of
\* jobsMux, and RunnableJobs is about to call IsRunnable holding nothing
C29_Witness ==
    \E p \in Procs, q \in Procs :
        /\ pc[p] = "idr_rlock" /\ Holds(p, jobsMux) /\ ~Holds(p, triesMux)
        /\ pc[q] = "rj_rlock" /\ ~Holds(q, jobsMux)

\* C30: every call ends (or the process panics): no goroutine waits for
\* ever on jobsMux or triesMux, jobsMux is never requested under triesMux
\* and a goroutine that has returned holds no lock.
C30_EveryCallEnds ==
    /\ [](\A p \in Procs :
            /\ pc[p] = "idle" => ~Holds(p, jobsMux) /\ ~Holds(p, triesMux)
            /\ WantsJobsMux(p) => ~Holds(p, triesMux))
    /\ \A p \in Procs : (pc[p] # "idle") ~> (pc[p] = "idle" \/ panicked)

\* IncrementSequenceTries waits for triesMux while IsDoneRunning holds both
\* read locks
C30_Witness ==
    \E p \in Procs, q \in Procs :
        /\ pc[p] = "ist_lock" /\ p \in triesMux.waiting
        /\ pc[q] = "idr_read" /\ q \in triesMux.readers /\ q \in jobsMux.readers

----------------------------------------------------------------------------
(* The DAG under calls whose job id is not in the chain.                   *)

\* the ids the callers pass: one of the chain and one that is in no chain
DagIds == {"job1", "job9"}

DagStates == {STATE_RUNNING, STATE_COMPLETE, STATE_FAIL}

InitDag ==
    /\ jobs = NewChain(LockJobs(STATE_PENDING))
    /\ adjacencyList = LockAdjacencyList
    /\ sequenceTries = EmptyMap
    /\ latestRunJobTries = EmptyMap
    /\ totalJobTries = EmptyMap
    /\ panicked = FALSE
    /\ ret = NoRet
    /\ NoProtocol
    /\ IdleProcs
    /\ FreshJobChain

NextDag ==
    \/ \E id \in DagIds, state \in DagStates : SetJobState(id, state)
    \/ \E id \in DagIds :
        /\ SequenceTries(id) < MaxSeqTries
        /\ IncrementSequenceTries(id, 1)
    \/ /\ MapGet(totalJobTries, "job9", 0) < MaxJobTotal
       /\ IncrementJobTries("job9", 1)
    \/ /\ finishedJobs < MaxFinished
       /\ IncrementFinishedJobs(1)
    \/ SetState(STATE_RUNNING)

SpecDag == InitDag /\ [][NextDag]_vars

\* the keys of Jobs, the adjacency list and the fields of a job that are
\* not its state
DagOf(js, adj) ==
    <<DOMAIN js, adj,
      [id \in DOMAIN js |-> <<js[id].Id, js[id].SequenceId, js[id].SequenceRetry>>]>>

\* C31: the DAG is immutable after construction: no operation, whatever
\* its job id, adds or removes a key of Jobs or changes the adjacency list
\* or a job's Id, SequenceId or SequenceRetry.
C31_DagImmutable == [][DagOf(jobs', adjacencyList') = DagOf(jobs, adjacencyList)]_vars

\* what holds of the code: the DAG changes in no step but a SetJobState
\* whose job id is not a key of Jobs (try counters of an unknown id go to
\* the try maps only)
C31_OnlyUnknownSetJobState ==
    [][DagOf(jobs', adjacencyList') # DagOf(jobs, adjacencyList)
        => /\ ret'.op = "SetJobState"
           /\ DOMAIN jobs' = DOMAIN jobs \cup {"job9"}
           /\ "job9" \notin DOMAIN jobs
           /\ jobs'["job9"].Id = ""]_vars

----------------------------------------------------------------------------
(* Every chain made of edges of the diamond 1 -> {2,3} -> 4 over the four  *)
(* test jobs, in every combination of valid job states, with the           *)
(* sequence's tries unused or used up.                                     *)

StuckEdges == {<<1, 2>>, <<1, 3>>, <<2, 4>>, <<3, 4>>}

InitStuck ==
    /\ jobs = NewChain(TestJobs)
    /\ \E E \in SUBSET StuckEdges : adjacencyList = AdjacencyOf(E)
    /\ sequenceTries = EmptyMap
    /\ latestRunJobTries = EmptyMap
    /\ totalJobTries = EmptyMap
    /\ panicked = FALSE
    /\ ret = NoRet
    /\ NoProtocol
    /\ IdleProcs
    /\ FreshJobChain

NextStuck ==
    \/ \E id \in JobIds, s \in ValidStates : SetJobState(id, s)
    \/ /\ SequenceTries("job1") = 0
       /\ IncrementSequenceTries("job1", TestSequenceRetry + 1)
    \/ CallIsDoneRunning

SpecStuck == InitStuck /\ [][NextStuck]_vars

PendingOrComplete ==
    /\ \A id \in JobIds : StateOf(id) \in {STATE_PENDING, STATE_COMPLETE}
    /\ \E id \in JobIds : StateOf(id) = STATE_PENDING

\* C33: no stuck state: when every job is PENDING or COMPLETE and at least
\* one is PENDING, some job is runnable and IsDoneRunning returns
\* (false, false); and whenever IsDoneRunning returns (true, false) some
\* job is STOPPED, FAIL or UNKNOWN.
C33_NoStuckState ==
    /\ PendingOrComplete =>
        /\ \E id \in JobIds : IsRunnable(id)
        /\ IsDoneRunningVerdicts = {Verdict(FALSE, FALSE, FALSE)}
    /\ (Returned(TRUE, FALSE) \/ Verdict(TRUE, FALSE, FALSE) \in IsDoneRunningVerdicts)
        => \E id \in JobIds :
            StateOf(id) \in {STATE_STOPPED, STATE_FAIL, STATE_UNKNOWN}

\* IsDoneRunning has returned (false, false) on a chain with a COMPLETE
\* job, a runnable job and a PENDING job that is not runnable
C33_Witness ==
    /\ PendingOrComplete
    /\ Returned(FALSE, FALSE)
    /\ \E id \in JobIds : StateOf(id) = STATE_COMPLETE
    /\ \E id \in JobIds : StateOf(id) = STATE_PENDING /\ ~IsRunnable(id)

\* IsDoneRunning has returned (true, false) because of a failed job whose
\* sequence has no tries left, with PENDING jobs behind it
C33_WitnessDone ==
    /\ Returned(TRUE, FALSE)
    /\ \E id \in JobIds : StateOf(id) = STATE_FAIL
    /\ \E id \in JobIds : StateOf(id) = STATE_PENDING

----------------------------------------------------------------------------
\* the chain's state that a reading method has to leave alone
ChainData ==
    <<jobs, adjacencyList, sequenceTries, latestRunJobTries, totalJobTries,
      finishedJobs, chainState, requestId>>

\* C35: IsDoneRunning does not depend on the scan order: when every job
\* has a valid state the returned (done, complete) pair is the same for
\* every order in which the Jobs map is iterated, without a panic, and the
\* call changes no state of the chain.
C35_IsDoneRunningDeterministic ==
    /\ [](AllValid =>
            /\ Cardinality(IsDoneRunningVerdicts) = 1
            /\ \A v \in IsDoneRunningVerdicts : ~v.panic)
    /\ [][ret'.op \in {"IsDoneRunning", "IsDoneRunning panic"}
            => ChainData' = ChainData]_vars

\* IsDoneRunning has returned on a chain with a RUNNING job and a STOPPED
\* job, which a scan meets in either order
C35_Witness ==
    /\ AllValid
    /\ Returned(FALSE, FALSE)
    /\ \E id \in JobIds : StateOf(id) = STATE_RUNNING
    /\ \E id \in JobIds : StateOf(id) = STATE_STOPPED

----------------------------------------------------------------------------
(* Goroutines that run the four read-modify-write methods side by side.    *)

\* the job a goroutine sets the state of: goroutine 1 and the others work
\* on different jobs
JobOf(p) == IF p = 1 THEN "job1" ELSE "job2"

UpdateDeltas == {-1, 1}

InitUpdates ==
    /\ jobs = NewChain(LockJobs(STATE_PENDING))
    /\ adjacencyList = LockAdjacencyList
    /\ sequenceTries = EmptyMap
    /\ latestRunJobTries = EmptyMap
    /\ totalJobTries = EmptyMap
    /\ panicked = FALSE
    /\ ret = NoRet
    /\ NoProtocol
    /\ IdleProcs
    /\ FreshJobChain

UpdateCall(p) ==
    \/ \E s \in {STATE_RUNNING, STATE_COMPLETE} : SetJobStateCall(p, JobOf(p), s)
    \/ \E d \in UpdateDeltas : IncrementSequenceTriesRLock(p, "job2", d)
    \/ \E d \in UpdateDeltas : IncrementFinishedJobsCall(p, d)
    \/ \E d \in UpdateDeltas :
        /\ MapGet(totalJobTries, "job1", 0) < MaxJobTotal
        /\ IncrementJobTriesLock(p, "job1", d)

UpdateStep(p) ==
    \/ SetJobStateLock(p)
    \/ SetJobStateStore(p)
    \/ IncrementSequenceTriesStart(p)
    \/ IncrementSequenceTriesLock(p)
    \/ IncrementSequenceTriesStore(p)
    \/ IncrementFinishedJobsLock(p)
    \/ IncrementFinishedJobsStore(p)
    \/ IncrementJobTriesTotal(p)
    \/ IncrementJobTriesLatest(p)
    \/ IncrementJobTriesUnlock(p)

NextUpdates == \E p \in Procs : UpdateCall(p) \/ UpdateStep(p)

SpecUpdates == InitUpdates /\ [][NextUpdates]_vars

\* what a call has read under its lock is still what is stored when it
\* writes: no other goroutine has written in between
ReadIsCurrent ==
    \A p \in Procs :
        /\ pc[p] = "ist_store" =>
            frame[p].cur = ToInt(MapGet(sequenceTries, frame[p].seqId, 0))
        /\ pc[p] = "ifj_store" => frame[p].cur = ToInt(finishedJobs)
        /\ pc[p] = "sjs_store" =>
            frame[p].job = MapGet(jobs, frame[p].jobId, ZeroJob)
        /\ pc[p] = "ijt_total" =>
            /\ frame[p].preTotal = totalJobTries
            /\ frame[p].preLatest = latestRunJobTries
        /\ pc[p] = "ijt_latest" => frame[p].preLatest = latestRunJobTries

\* the write of a non-fatal call of goroutine p: the counter becomes
\* Sum(counter, delta), and SetJobState sets its job and no other
WritesSum(p, Sum(_, _)) ==
    /\ pc[p] = "ist_store" /\ pc'[p] = "idle" =>
        MapGet(sequenceTries', frame[p].seqId, 0)
            = Sum(MapGet(sequenceTries, frame[p].seqId, 0), frame[p].delta)
    /\ pc[p] = "ifj_store" /\ pc'[p] = "idle" =>
        finishedJobs' = Sum(finishedJobs, frame[p].delta)
    /\ pc[p] = "ijt_total" /\ pc'[p] = "ijt_latest" =>
        MapGet(totalJobTries', frame[p].jobId, 0)
            = Sum(MapGet(totalJobTries, frame[p].jobId, 0),
                  IF frame[p].delta > 0 THEN frame[p].delta ELSE 0)
    /\ pc[p] = "ijt_latest" /\ pc'[p] = "ijt_unlock" =>
        MapGet(latestRunJobTries', frame[p].jobId, 0)
            = Sum(MapGet(latestRunJobTries, frame[p].jobId, 0), frame[p].delta)
    /\ pc[p] = "sjs_store" /\ pc'[p] = "idle" =>
        /\ jobs'[frame[p].jobId].State = frame[p].state
        /\ \A id \in DOMAIN jobs \ {frame[p].jobId} : jobs'[id] = jobs[id]

IntSum(x, d) == x + d
UintSum(x, d) == ToUint(x + d)

\* C34: no lost updates: each of the four methods reads and writes inside
\* one critical section, so every non-fatal increment running beside
\* others adds exactly its delta to the counter (after n of them the
\* counter is its initial value plus d1+...+dn), and SetJobState calls on
\* different jobs all take effect.
C34_NoLostUpdates ==
    /\ []ReadIsCurrent
    /\ [][\A p \in Procs : WritesSum(p, IntSum)]_vars

\* what holds of the code: nothing is lost, and the counters are the sums
\* in the arithmetic of uint
C34_NoLostUpdatesUint ==
    /\ []ReadIsCurrent
    /\ [][\A p \in Procs : WritesSum(p, UintSum)]_vars

\* two goroutines are inside IncrementSequenceTries and SetJobState at
\* once, one about to write and one waiting
C34_Witness ==
    \E p \in Procs, q \in Procs :
        /\ pc[p] = "ist_store" /\ pc[q] = "ist_lock"
        /\ q \in triesMux.waiting

----------------------------------------------------------------------------
(* SpecTraverse: a traverser that runs the chain to its end. It sets a     *)
(* runnable job to RUNNING, calling IncrementSequenceTries(+1) when the    *)
(* job starts a sequence attempt; a running job ends COMPLETE or FAIL; a   *)
(* sequence with a failed job is reset to PENDING only while               *)
(* CanRetrySequence is true; IsDoneRunning is called again and again.      *)

TraverserRunJob(id) ==
    /\ ~panicked
    /\ IsRunnable(id)
    /\ sequenceTries' = IF SequenceStartJob(id).Id = id
                            THEN IncrementSequenceTriesMap(id, 1)
                            ELSE sequenceTries
    /\ jobs' = MapPut(jobs, id, [jobs[id] EXCEPT !.State = STATE_RUNNING])
    /\ ret' = Ret("SetJobState", "", FALSE, FALSE, FALSE)
    /\ UNCHANGED <<adjacencyList, latestRunJobTries, totalJobTries, panicked,
                   protoVars, procVars, restVars>>

JobEnds(id, state) ==
    /\ jobs[id].State = STATE_RUNNING
    /\ SetJobState(id, state)

TraverserRetrySequence(seq) ==
    /\ ~panicked
    /\ \E id \in JobsOf(seq) : jobs[id].State = STATE_FAIL /\ CanRetrySequence(id)
    /\ \A id \in JobsOf(seq) : jobs[id].State # STATE_RUNNING
    /\ jobs' = [id \in DOMAIN jobs |->
                    IF id \in JobsOf(seq)
                        THEN [jobs[id] EXCEPT !.State = STATE_PENDING]
                        ELSE jobs[id]]
    /\ ret' = Ret("SetJobState", "", FALSE, FALSE, FALSE)
    /\ UNCHANGED <<adjacencyList, triesVars, panicked, protoVars, procVars,
                   restVars>>

InitTraverse ==
    /\ \E retry1, retry3 \in 0..MaxRetry : jobs = NewChain(SeqJobs(retry1, retry3))
    /\ adjacencyList \in {SeqAdjacencyList, DiamondAdjacencyList}
    /\ sequenceTries = EmptyMap
    /\ latestRunJobTries = EmptyMap
    /\ totalJobTries = EmptyMap
    /\ panicked = FALSE
    /\ ret = NoRet
    /\ NoProtocol
    /\ IdleProcs
    /\ FreshJobChain

Traverser ==
    \/ \E id \in JobIds : TraverserRunJob(id)
    \/ \E seq \in Sequences : TraverserRetrySequence(seq)
    \/ CallIsDoneRunning

Worker ==
    \/ \E id \in JobIds : JobEnds(id, STATE_COMPLETE)
    \/ \E id \in JobIds : JobEnds(id, STATE_FAIL)

NextTraverse == Traverser \/ Worker

SpecTraverse ==
    /\ InitTraverse
    /\ [][NextTraverse]_vars
    /\ WF_vars(Traverser)
    /\ WF_vars(Worker)

\* C32: traversal terminates: under the fair traverser IsDoneRunning
\* eventually returns done = true, and if no job ever fails it eventually
\* returns (true, true).
C32_TraversalTerminates ==
    /\ <>(ret.op = "IsDoneRunning" /\ ret.done)
    /\ [](\A id \in JobIds : StateOf(id) # STATE_FAIL) => <>Returned(TRUE, TRUE)

\* IsDoneRunning has returned (true, true) after a sequence was retried
C32_Witness ==
    /\ Returned(TRUE, TRUE)
    /\ \E seq \in DOMAIN sequenceTries : sequenceTries[seq] >= 2

\* IsDoneRunning has returned (true, false): a sequence has failed on its
\* last try
C32_WitnessFailed ==
    /\ Returned(TRUE, FALSE)
    /\ \E id \in JobIds : StateOf(id) = STATE_FAIL /\ ~CanRetrySequence(id)

====
